---- MODULE Spec2Model ----
(***************************************************************************)
(* The discovery-and-forwarding pipeline of the backend:                   *)
(*   - the Registry Client of shared/service-discovery.js (initConsul,     *)
(*     withRetry, discoverService and its cache, troubleshootService,      *)
(*     invalidateServiceCache, listServiceInstances,                       *)
(*     isServiceDiscoveryAvailable, registerService);                      *)
(*   - the dynamic proxy of api-gateway/index.js with its per-service      *)
(*     circuit breaker (getCircuitState, discoverServiceInstance,          *)
(*     createDynamicProxy and its onProxyRes / onError hooks).             *)
(*                                                                         *)
(* Node runs one handler at a time: a handler runs from the completion of  *)
(* an I/O call (or a timer) to its next await on I/O.  Each action below   *)
(* is one such run, with every synchronous continuation it makes.  The     *)
(* handlers are written as operators from a World (the mutable module      *)
(* state) to a World, so that they compose in program order.               *)
(*                                                                         *)
(* Time: Date.now() moves only by Tick, and only to the instants at which  *)
(* a comparison of the code changes its answer (the reset timeout of a     *)
(* breaker, the expiry of a cache entry).  The sleeps of withRetry are     *)
(* suspension points that are not tied to this clock.                      *)
(*                                                                         *)
(* Specifications:                                                         *)
(*   Spec         the gateway: concurrent requests through the proxy;      *)
(*   SpecSignals  the same, with the failure signals of each service       *)
(*                observed;                                                *)
(*   SpecClient   the Registry Client under direct callers of              *)
(*                discoverService and invalidateServiceCache (the          *)
(*                self-test that service-discovery.js runs at load time is *)
(*                such a caller).                                          *)
(*   SpecLive     the gateway under weak fairness of every pending        *)
(*                completion, the clock moving only between requests;      *)
(*   SpecTwo      the gateway with one request on the auth-service route   *)
(*                and one on the search-service route;                     *)
(*   SpecSerial   the gateway handling one request at a time;              *)
(*   SpecCache    the Registry Client under all of its exported calls;     *)
(*   SpecBoot     the start of the gateway process (startServer);          *)
(*   SpecShutdown a service process from its start to its exit on SIGINT   *)
(*                or SIGTERM (registerService's deregister listener and    *)
(*                the service's own shutdown listener);                    *)
(*   SpecBurst    the gateway under a burst of requests admitted while the *)
(*                breaker is CLOSED, the upstream refusing connections;    *)
(*   SpecRetry    withRetry under attempt budgets from 1 to MaxBudget;     *)
(*   SpecHealth   the discoverService that checks the /health endpoint of  *)
(*                the instances the registry reports (verifyServiceHealth);*)
(*   SpecKeys     the cache under resolves for pairs (service, tag) whose  *)
(*                key strings coincide;                                    *)
(*   SpecAuth     the gateway under requests that carry a token and        *)
(*                x-user-* headers (verifyToken, onProxyReq).              *)
(***************************************************************************)
EXTENDS Integers, Sequences, FiniteSets, TLC

\* ---- program constants ---------------------------------------------------
THRESHOLD == 5
CIRCUIT_RESET_MS == 30000
MAX_RETRIES == 3
RETRY_DELAY_MS == 1000
CACHE_TTL_MS == 5000

\* ---- bounds --------------------------------------------------------------
\* concurrent inbound requests at the gateway
MaxReqs == 2
\* concurrent direct callers of the Registry Client
MaxClients == 2
\* how many times the clock is advanced
MaxTicks == 1

ReqIds == 1..MaxReqs
ClientIds == {100 + i : i \in 1..MaxClients}
TaskIds == ReqIds \cup ClientIds

Services == {"auth-service", "search-service"}
SERVICE_TAG == "development"
\* tag = null; the empty string is falsy too, so `tag || 'default'` and
\* `if (tag)` treat it as null
NoTag == ""
\* the (service, tag) pairs direct callers resolve
ClientKeys == {<<"auth-service", NoTag>>}
\* instance ids the registry may report for a service
InstanceIds == {"i1", "i2"}
\* what consul.catalog.service.nodes may give: an error, an empty list, or a
\* list of which one instance is picked
QueryOutcomes == InstanceIds \cup {"transport", "zero"}
\* the same for the lookups of the gateway
GatewayOutcomes == {"i1", "transport", "zero"}
\* the services whose routes receive requests
Routed == {"auth-service"}
\* Error codes of a failed forward
ErrCodes == {"ECONNREFUSED", "ECONNRESET"}
\* status codes an upstream may answer
UpstreamCodes == {200, 500}

VARIABLES
  now,            \* Date.now()
  ticks,          \* how many times the clock advanced
  consulClient,   \* the module's shared client: "null", "probing", "verified"
  serviceCache,   \* Map cacheKey -> [service, timestamp]
  circuitStates,  \* object serviceName -> [failures, circuitOpen, lastFailureTs]
  tasks,          \* the handlers: gateway requests and direct callers; a
                  \* finished one keeps what it did until its slot is reused
  signals         \* an observer, which the code does not keep: per service,
                  \* the failure signals since the last upstream response
                  \* or reset of the breaker;
                  \* <<>> where a specification does not observe them
VARIABLES
  proc            \* the process: its startup, its listeners of SIGINT and
                  \* SIGTERM, its exit, and its entry in the registry

vars == <<now, ticks, consulClient, serviceCache, circuitStates, tasks, signals, proc>>

NoInst == [name |-> "", id |-> ""]
\* an Error's message: which service, and what went wrong
NoErr == [service |-> "", cause |-> "none"]
NoResp == [code |-> 0, status |-> "none", details |-> NoErr]

\* the identity headers x-user-id, x-user-role, x-user-email; none of them
NoUser == [id |-> "", role |-> "", email |-> ""]

\* what a request carries for the identity: the token of its Authorization
\* header ("none" without one), the x-user-* headers of req.headers, req.user
NoReq == [token |-> "none", xuser |-> NoUser, user |-> NoUser]

IdleTask ==
  [pc |-> "idle", op |-> "none", svc |-> "", tag |-> NoTag, bypass |-> FALSE,
   pre |-> "none", at |-> 0,
   retries |-> MAX_RETRIES, attempt |-> 0, delay |-> 0,
   nDisc |-> 0, nLive |-> 0, nFwd |-> 0, nSig |-> 0, nResp |-> 0,
   via |-> "none", inst |-> NoInst, err |-> NoErr, resp |-> NoResp,
   health |-> FALSE, cands |-> <<>>, nChecked |-> 0, verified |-> <<>>,
   req |-> NoReq, sent |-> NoUser]

\* A process whose modules have been loaded: nothing registered, no listener
\* of SIGINT/SIGTERM installed.
\*   state      "starting" until the callback of app.listen runs
\*   exit       "none" while running; "exit0", "exit1" after process.exit;
\*              "crash" after an error nobody caught; "signal" when a signal
\*              found no listener
\*   avail      what isServiceDiscoveryAvailable told startServer
\*   registry   whether the registry holds the instance id of the process
\*   handlers   the listeners of SIGINT and SIGTERM, in order of installation
\*   dereg      the deregister call: "none", "queued" (made, nothing written
\*              yet), "sent", "answered" (done at the registry), "failed"
\*   shut       where the shutdown listener of the service stands
Loaded(kind) ==
  [kind |-> kind, state |-> "starting", exit |-> "none", avail |-> "unknown",
   registry |-> FALSE,
   handlers |-> <<>>, signalled |-> FALSE, dereg |-> "none", shut |-> "none"]

\* The mutable module state a handler works on.
World ==
  [cc |-> consulClient, cache |-> serviceCache, cs |-> circuitStates,
   tasks |-> tasks, sig |-> signals, proc |-> proc]

NoSignals == [n |-> 0, refused |-> TRUE]

\* one more failure signal for the service of t: the signals are counted up to
\* THRESHOLD, and whether all of them were refused connections is kept
ObserveFailure(w, t, kind) ==
  LET s == w.tasks[t].svc
  IN IF s \notin DOMAIN w.sig
       THEN w
       ELSE [w EXCEPT !.sig[s] = [n |-> IF @.n < THRESHOLD THEN @.n + 1 ELSE @.n,
                                  refused |-> @.refused /\ kind = "ECONNREFUSED"]]

\* the upstream of the service of t answered
ObserveResponse(w, t) ==
  IF w.tasks[t].svc \notin DOMAIN w.sig
    THEN w
    ELSE [w EXCEPT !.sig[w.tasks[t].svc] = NoSignals]

\* the breaker of serviceName is reset
ObserveReset(w, serviceName) ==
  IF serviceName \notin DOMAIN w.sig
    THEN w
    ELSE [w EXCEPT !.sig[serviceName] = NoSignals]

\* a handler has finished: what it did is kept, its slot is free again
Finish(w, t) ==
  [w EXCEPT !.tasks[t].pc = "idle", !.tasks[t].op = "none",
            !.tasks[t].attempt = 0, !.tasks[t].delay = 0]

\* ---- Registry Client: cache ---------------------------------------------

\* `${serviceName}-${tag || 'default'}`
CacheKey(serviceName, tag) ==
  serviceName \o "-" \o (IF tag = NoTag THEN "default" ELSE tag)

\* IsFresh with >= for >
IsFreshInclusive(cached) == cached.timestamp >= now - CACHE_TTL_MS

\* cached.timestamp > Date.now() - CACHE_TTL_MS
IsFresh(cached) == cached.timestamp > now - CACHE_TTL_MS

CacheHas(w, key) == key \in DOMAIN w.cache

\* serviceCache.set(cacheKey, {service, timestamp: Date.now()})
CacheSet(w, key, service) ==
  [w EXCEPT !.cache = (key :> [service |-> service, timestamp |-> now]) @@ w.cache]

\* serviceCache.clear() for serviceCache.delete(cacheKey)
CacheDeleteAll(cache, key) == <<>>

\* serviceCache.delete(cacheKey)
CacheDelete(cache, key) == [k \in (DOMAIN cache) \ {key} |-> cache[k]]

\* ---- Registry Client: initConsul and withRetry ---------------------------

\* withRetry(initConsul) has returned the client: the caller goes on to its
\* first registry call.
AfterInit(w, t) ==
  IF w.tasks[t].op \in {"discover", "list"}
    THEN [w EXCEPT !.tasks[t].pc = "query", !.tasks[t].attempt = 1,
                   !.tasks[t].delay = RETRY_DELAY_MS]
    ELSE IF w.tasks[t].op = "available"
      THEN [w EXCEPT !.tasks[t].pc = "leader", !.tasks[t].attempt = 0,
                     !.tasks[t].delay = 0]
      ELSE IF w.tasks[t].op = "register"
        THEN [w EXCEPT !.tasks[t].pc = "register", !.tasks[t].attempt = 0,
                       !.tasks[t].delay = 0]
        ELSE [w EXCEPT !.tasks[t].pc = "tsList", !.tasks[t].attempt = 0,
                       !.tasks[t].delay = 0]

\* initConsul up to its await: an existing client is returned as it is,
\* otherwise a new one is stored and its leader probe is sent.
InitConsul(w, t) ==
  IF w.cc # "null"
    THEN AfterInit(w, t)
    ELSE [w EXCEPT !.cc = "probing", !.tasks[t].pc = "init"]

\* withRetry(initConsul): attempt = 1, delay = RETRY_DELAY_MS
BeginInit(w, t) ==
  InitConsul([w EXCEPT !.tasks[t].attempt = 1, !.tasks[t].delay = RETRY_DELAY_MS], t)

\* delay *= 1.5
NextDelay(delay) == (delay * 3) \div 2

\* ---- gateway: breaker and proxy ------------------------------------------

NewCircuit == [failures |-> 0, circuitOpen |-> FALSE, lastFailureTs |-> 0]

\* getCircuitState: the state of a service is created on first use
GetCircuitState(w, serviceName) ==
  IF serviceName \in DOMAIN w.cs
    THEN w
    ELSE [w EXCEPT !.cs = (serviceName :> NewCircuit) @@ w.cs]

\* FailureSignal with > for >= in the threshold test
FailureSignalAbove(w, t) ==
  LET s == w.tasks[t].svc
      f == w.cs[s].failures + 1
  IN [w EXCEPT !.cs[s].failures = f,
               !.cs[s].lastFailureTs = now,
               !.cs[s].circuitOpen = IF f > THRESHOLD THEN TRUE ELSE @,
               !.tasks[t].nSig = @ + 1]

\* a failure signal counted against one record shared by every service
FailureSignalShared(w, t) ==
  LET f == w.cs[w.tasks[t].svc].failures + 1
  IN [w EXCEPT !.cs = [s \in DOMAIN w.cs |->
                         [failures |-> f, lastFailureTs |-> now,
                          circuitOpen |-> IF f >= THRESHOLD THEN TRUE
                                          ELSE w.cs[s].circuitOpen]],
               !.tasks[t].nSig = @ + 1]

\* circuit.failures++; lastFailureTs = Date.now(); open at THRESHOLD
FailureSignal(w, t) ==
  LET s == w.tasks[t].svc
      f == w.cs[s].failures + 1
  IN [w EXCEPT !.cs[s].failures = f,
               !.cs[s].lastFailureTs = now,
               !.cs[s].circuitOpen = IF f >= THRESHOLD THEN TRUE ELSE @,
               !.tasks[t].nSig = @ + 1]

\* res.status(code).json({..., status}): the request is answered
Respond(w, t, code, status, details) ==
  Finish([w EXCEPT !.tasks[t].resp =
                     [code |-> code, status |-> status, details |-> details],
                   !.tasks[t].nResp = @ + 1], t)

\* ProxyDiscoveryFailed with the `return` lost: the 503 is sent and the
\* handler goes on to the forward
ProxyDiscoveryFailedNoReturn(w, t) ==
  LET w1 == Respond(FailureSignal(ObserveFailure(w, t, "discovery"), t), t,
                    503, "unavailable", w.tasks[t].err)
  IN [w1 EXCEPT !.tasks[t].pc = "fwd", !.tasks[t].nFwd = @ + 1]

\* discovery failed: the failure signal and the 503 "unavailable"
ProxyDiscoveryFailed(w, t) ==
  Respond(FailureSignal(ObserveFailure(w, t, "discovery"), t), t,
          503, "unavailable", w.tasks[t].err)

\* ProxyForward closing the breaker on a successful resolution
ProxyForwardCloses(w, t) ==
  [w EXCEPT !.cs[w.tasks[t].svc].failures = 0,
            !.cs[w.tasks[t].svc].circuitOpen = FALSE,
            !.tasks[t].pc = "fwd", !.tasks[t].op = "none",
            !.tasks[t].attempt = 0, !.tasks[t].delay = 0,
            !.tasks[t].nFwd = @ + 1]

\* ProxyForward without the reset of the counter
ProxyForwardKeepsCount(w, t) ==
  [w EXCEPT !.tasks[t].pc = "fwd", !.tasks[t].op = "none",
            !.tasks[t].attempt = 0, !.tasks[t].delay = 0,
            !.tasks[t].nFwd = @ + 1]

\* ---- gateway: identity headers -------------------------------------------

\* the tokens jwt.verify accepts under JWT_SECRET, with their payloads
Signed ==
  [k \in {"alice-token"} |->
     [id |-> "alice", role |-> "user", email |-> "alice@example.org"]]

\* verifyToken: without a token, or with one jwt.verify rejects, the request
\* goes on as it came; with a valid one req.user and the x-user-* entries of
\* req.headers are set from the payload
VerifyToken(req) ==
  IF req.token = "none"
    THEN req
    ELSE IF req.token \in DOMAIN Signed
      THEN [req EXCEPT !.user = Signed[req.token], !.xuser = Signed[req.token]]
      ELSE req

\* the x-user-* headers of the proxied request: those of req.headers, which
\* the proxy copies, overwritten by onProxyReq when req.user is set
OnProxyReq(req) == IF req.user # NoUser THEN req.user ELSE req.xuser

\* authenticate of the search service: the identity it takes from the headers,
\* none (401) without x-user-id
Authenticate(headers) == IF headers.id = "" THEN NoUser ELSE headers

\* discovery succeeded: circuit.failures = 0, then the forward is started
ProxyForward(w, t) ==
  [w EXCEPT !.cs[w.tasks[t].svc].failures = 0,
            !.tasks[t].pc = "fwd", !.tasks[t].op = "none",
            !.tasks[t].attempt = 0, !.tasks[t].delay = 0,
            !.tasks[t].nFwd = @ + 1,
            !.tasks[t].sent = OnProxyReq(w.tasks[t].req)]

\* ErrorStatus without the test of err.code
ErrorStatusAlways500(code) == 500

\* onError status code
ErrorStatus(code) == IF code = "ECONNREFUSED" THEN 503 ELSE 500

\* ---- Registry Client: discoverService ------------------------------------

RECURSIVE StartDiscover(_, _, _, _, _)

\* discoverService returns an instance to its caller
Return(w, t, service, via) ==
  LET w1 == [w EXCEPT !.tasks[t].via = via, !.tasks[t].inst = service,
                      !.tasks[t].err = NoErr]
  IN IF t \in ClientIds
       THEN Finish(w1, t)
       ELSE ProxyForward(w1, t)

\* Throw with one more untagged lookup before giving up
ThrowRetryTwice(w, t, cause) ==
  LET e == [service |-> w.tasks[t].svc, cause |-> cause]
      svc == w.tasks[t].svc
      w1 == [w EXCEPT !.tasks[t].via = "throw", !.tasks[t].inst = NoInst,
                      !.tasks[t].err = e]
  IN IF t \in ClientIds
       THEN Finish(w1, t)
       ELSE IF w.tasks[t].nDisc < 3
         THEN StartDiscover(w1, t, svc, NoTag, TRUE)
         ELSE BeginInit([w1 EXCEPT !.tasks[t].op = "troubleshoot"], t)

\* Throw without the untagged retry of discoverServiceInstance
ThrowNoRetry(w, t, cause) ==
  LET e == [service |-> w.tasks[t].svc, cause |-> cause]
      w1 == [w EXCEPT !.tasks[t].via = "throw", !.tasks[t].inst = NoInst,
                      !.tasks[t].err = e]
  IN IF t \in ClientIds
       THEN Finish(w1, t)
       ELSE BeginInit([w1 EXCEPT !.tasks[t].op = "troubleshoot"], t)

\* discoverService throws; in the gateway discoverServiceInstance catches it:
\* the tagged lookup is followed by the untagged one, the untagged one by
\* troubleshootService
Throw(w, t, cause) ==
  LET e == [service |-> w.tasks[t].svc, cause |-> cause]
      svc == w.tasks[t].svc
      w1 == [w EXCEPT !.tasks[t].via = "throw", !.tasks[t].inst = NoInst,
                      !.tasks[t].err = e]
  IN IF t \in ClientIds
       THEN Finish(w1, t)
       ELSE IF ~w.tasks[t].bypass
         THEN StartDiscover(w1, t, svc, NoTag, TRUE)
         ELSE BeginInit([w1 EXCEPT !.tasks[t].op = "troubleshoot"], t)

\* DiscoverCatch falling back to a fresh entry only
DiscoverCatchFreshOnly(w, t, cause) ==
  LET key == CacheKey(w.tasks[t].svc, w.tasks[t].tag)
  IN IF CacheHas(w, key) /\ IsFresh(w.cache[key])
       THEN Return(w, t, w.cache[key].service, "fallback")
       ELSE Throw(w, t, cause)

\* the catch block of discoverService: the cached value, even if expired
DiscoverCatch(w, t, cause) ==
  LET key == CacheKey(w.tasks[t].svc, w.tasks[t].tag)
  IN IF CacheHas(w, key)
       THEN Return(w, t, w.cache[key].service, "fallback")
       ELSE Throw(w, t, cause)

\* StartDiscover with the test of bypassCache lost
StartDiscoverNoBypass(w, t, serviceName, tag, bypassCache) ==
  LET key == CacheKey(serviceName, tag)
      w1 == [w EXCEPT !.tasks[t].op = "discover", !.tasks[t].svc = serviceName,
                      !.tasks[t].tag = tag, !.tasks[t].bypass = bypassCache,
                      !.tasks[t].nDisc = @ + 1,
                      !.tasks[t].nLive = 0,
                      !.tasks[t].via = "none", !.tasks[t].inst = NoInst,
                      !.tasks[t].err = NoErr]
  IN IF CacheHas(w, key) /\ IsFresh(w.cache[key])
       THEN Return(w1, t, w.cache[key].service, "hit")
       ELSE BeginInit([w1 EXCEPT !.tasks[t].nLive = @ + 1], t)

\* discoverService up to its first await on I/O
StartDiscover(w, t, serviceName, tag, bypassCache) ==
  LET key == CacheKey(serviceName, tag)
      w1 == [w EXCEPT !.tasks[t].op = "discover", !.tasks[t].svc = serviceName,
                      !.tasks[t].tag = tag, !.tasks[t].bypass = bypassCache,
                      !.tasks[t].nDisc = @ + 1,
                      !.tasks[t].nLive = 0,
                      !.tasks[t].via = "none", !.tasks[t].inst = NoInst,
                      !.tasks[t].err = NoErr]
  IN IF ~bypassCache /\ CacheHas(w, key) /\ IsFresh(w.cache[key])
       THEN Return(w1, t, w.cache[key].service, "hit")
       ELSE BeginInit([w1 EXCEPT !.tasks[t].nLive = @ + 1], t)

\* troubleshootService has returned (it never throws).  In the gateway
\* discoverServiceInstance returns {success: false, error: err2.message}; a
\* direct caller gets the diagnostics.
TroubleshootDone(w, t) ==
  IF t \in ClientIds
    THEN Finish([w EXCEPT !.tasks[t].via = "diagnosed"], t)
    ELSE ProxyDiscoveryFailed(w, t)

\* listServiceInstances returns the instances, none included
ListDone(w, t) == Finish([w EXCEPT !.tasks[t].via = "listed"], t)

\* the catch block of listServiceInstances: Failed to list service instances
ListCatch(w, t, cause) ==
  Finish([w EXCEPT !.tasks[t].via = "throw",
                   !.tasks[t].err = [service |-> w.tasks[t].svc, cause |-> cause]], t)

\* the main flow of the process (startServer, or the code after connectDB)
Main == 101
\* testServiceDiscovery(), which service-discovery.js calls when it is loaded
SelfTest == 102

\* app.listen(PORT, callback): the callback runs once the port is bound
StartListen(w, t) == [w EXCEPT !.tasks[t].pc = "listen", !.tasks[t].op = "none"]

\* isServiceDiscoveryAvailable returns true, or false from its catch block; in
\* startServer the gateway warns when it is false and calls app.listen
AvailableDone(w, t, avail) ==
  LET w1 == [w EXCEPT !.tasks[t].via = IF avail THEN "available" ELSE "unavailable"]
  IN IF t = Main /\ w.proc.kind = "api-gateway" /\ w.proc.state = "starting"
       THEN StartListen([w1 EXCEPT !.proc.avail = IF avail THEN "yes" ELSE "no"], t)
       ELSE Finish(w1, t)

\* registerService up to its first await on I/O
RegisterService(w, t) ==
  BeginInit([w EXCEPT !.tasks[t].op = "register", !.tasks[t].svc = w.proc.kind,
                      !.tasks[t].via = "none", !.tasks[t].err = NoErr], t)

\* the caller of registerService goes on after its try/catch: the resource
\* service installs its shutdown listener there
AfterRegister(w, t) ==
  IF w.proc.kind = "resource"
    THEN [Finish(w, t) EXCEPT !.proc.handlers = Append(@, "shutdown")]
    ELSE Finish(w, t)

\* registerService: the registry accepted the instance; the deregister
\* listener is installed and the service id returned
RegisterReturn(w, t) ==
  AfterRegister([w EXCEPT !.proc.registry = TRUE,
                          !.proc.handlers = Append(@, "deregister"),
                          !.tasks[t].via = "registered"], t)

\* RegisterCatch with no try/catch around the call of registerService
RegisterCatchUncaught(w, t, cause) ==
  [Finish(w, t) EXCEPT !.proc.exit = "crash",
                       !.tasks[t].via = "throw",
                       !.tasks[t].err = [service |-> w.proc.kind, cause |-> cause]]

\* registerService throws Service registration failed; its caller catches
\* and logs it
RegisterCatch(w, t, cause) ==
  AfterRegister([w EXCEPT !.tasks[t].via = "throw",
                          !.tasks[t].err = [service |-> w.proc.kind, cause |-> cause]], t)

\* RetryFailed sleeping and trying again after the last attempt too
RetryFailedOneMore(w, t, cause) ==
  IF w.tasks[t].attempt <= w.tasks[t].retries
    THEN [w EXCEPT !.tasks[t].pc = IF @ = "init" THEN "initSleep" ELSE "querySleep"]
    ELSE IF w.tasks[t].op = "discover"
      THEN DiscoverCatch(w, t, cause)
      ELSE IF w.tasks[t].op = "list"
        THEN ListCatch(w, t, cause)
        ELSE IF w.tasks[t].op = "register"
          THEN RegisterCatch(w, t, cause)
          ELSE TroubleshootDone(w, t)

\* withRetry's catch: sleep and try again, or throw the last error to the
\* try/catch of the function that called withRetry
RetryFailed(w, t, cause) ==
  IF w.tasks[t].attempt < w.tasks[t].retries
    THEN [w EXCEPT !.tasks[t].pc = IF @ = "init" THEN "initSleep" ELSE "querySleep"]
    ELSE IF w.tasks[t].op = "discover"
      THEN DiscoverCatch(w, t, cause)
      ELSE IF w.tasks[t].op = "list"
        THEN ListCatch(w, t, cause)
        ELSE IF w.tasks[t].op = "register"
          THEN RegisterCatch(w, t, cause)
          ELSE TroubleshootDone(w, t)

\* initConsul throws: to withRetry where the caller used it, to the catch
\* block of isServiceDiscoveryAvailable where it did not
InitFailed(w, t, cause) ==
  IF w.tasks[t].op = "available"
    THEN AvailableDone(w, t, FALSE)
    ELSE RetryFailed(w, t, cause)

\* ---- actions -------------------------------------------------------------

Apply(w) ==
  /\ consulClient' = w.cc
  /\ serviceCache' = w.cache
  /\ circuitStates' = w.cs
  /\ tasks' = w.tasks
  /\ signals' = w.sig
  /\ proc' = w.proc
  /\ UNCHANGED <<now, ticks>>

\* PreCheck counting a rejection as a failure signal: lastFailureTs is stamped
PreCheckStampsReject(w, t, serviceName) ==
  LET w1 == GetCircuitState(w, serviceName)
      circuit == w1.cs[serviceName]
      w2 == [w1 EXCEPT !.tasks[t] =
                         [IdleTask EXCEPT !.svc = serviceName, !.at = now,
                                          !.req = w.tasks[t].req]]
  IN IF circuit.circuitOpen
       THEN IF now - circuit.lastFailureTs > CIRCUIT_RESET_MS
              THEN StartDiscover([ObserveReset(w2, serviceName) EXCEPT
                                            !.cs[serviceName].circuitOpen = FALSE,
                                            !.cs[serviceName].failures = 0,
                                            !.tasks[t].pre = "reset"],
                                 t, serviceName, SERVICE_TAG, FALSE)
              ELSE Respond([w2 EXCEPT !.tasks[t].pre = "rejected",
                                      !.cs[serviceName].lastFailureTs = now], t,
                           503, "circuit-open", NoErr)
       ELSE StartDiscover([w2 EXCEPT !.tasks[t].pre = "closed"],
                          t, serviceName, SERVICE_TAG, FALSE)

\* PreCheck admitting a request only while no other request is in flight
PreCheckExclusive(w, t, serviceName) ==
  LET w1 == GetCircuitState(w, serviceName)
      circuit == w1.cs[serviceName]
      busy == \E u \in DOMAIN w.tasks \ {t} : w.tasks[u].pc # "idle"
      w2 == [w1 EXCEPT !.tasks[t] =
                         [IdleTask EXCEPT !.svc = serviceName, !.at = now,
                                          !.req = w.tasks[t].req]]
  IN IF circuit.circuitOpen \/ busy
       THEN IF circuit.circuitOpen /\ ~busy
                 /\ now - circuit.lastFailureTs > CIRCUIT_RESET_MS
              THEN StartDiscover([ObserveReset(w2, serviceName) EXCEPT
                                            !.cs[serviceName].circuitOpen = FALSE,
                                            !.cs[serviceName].failures = 0,
                                            !.tasks[t].pre = "reset"],
                                 t, serviceName, SERVICE_TAG, FALSE)
              ELSE Respond([w2 EXCEPT !.tasks[t].pre = "rejected"], t,
                           503, "circuit-open", NoErr)
       ELSE StartDiscover([w2 EXCEPT !.tasks[t].pre = "closed"],
                          t, serviceName, SERVICE_TAG, FALSE)

\* PreCheck with >= for > in the test of the reset timeout
PreCheckAtBound(w, t, serviceName) ==
  LET w1 == GetCircuitState(w, serviceName)
      circuit == w1.cs[serviceName]
      w2 == [w1 EXCEPT !.tasks[t] =
                         [IdleTask EXCEPT !.svc = serviceName, !.at = now,
                                          !.req = w.tasks[t].req]]
  IN IF circuit.circuitOpen
       THEN IF now - circuit.lastFailureTs >= CIRCUIT_RESET_MS
              THEN StartDiscover([ObserveReset(w2, serviceName) EXCEPT
                                            !.cs[serviceName].circuitOpen = FALSE,
                                            !.cs[serviceName].failures = 0,
                                            !.tasks[t].pre = "reset"],
                                 t, serviceName, SERVICE_TAG, FALSE)
              ELSE Respond([w2 EXCEPT !.tasks[t].pre = "rejected"], t,
                           503, "circuit-open", NoErr)
       ELSE StartDiscover([w2 EXCEPT !.tasks[t].pre = "closed"],
                          t, serviceName, SERVICE_TAG, FALSE)

\* PreCheck with the `return` of the rejection lost: the 503 is sent and the
\* handler goes on to discovery
PreCheckNoReturn(w, t, serviceName) ==
  LET w1 == GetCircuitState(w, serviceName)
      circuit == w1.cs[serviceName]
      w2 == [w1 EXCEPT !.tasks[t] =
                         [IdleTask EXCEPT !.svc = serviceName, !.at = now,
                                          !.req = w.tasks[t].req]]
      rejected == [w2 EXCEPT !.tasks[t].pre = "rejected",
                             !.tasks[t].resp = [code |-> 503, status |-> "circuit-open",
                                                details |-> NoErr]]
  IN IF circuit.circuitOpen
       THEN IF now - circuit.lastFailureTs > CIRCUIT_RESET_MS
              THEN StartDiscover([ObserveReset(w2, serviceName) EXCEPT
                                            !.cs[serviceName].circuitOpen = FALSE,
                                            !.cs[serviceName].failures = 0,
                                            !.tasks[t].pre = "reset"],
                                 t, serviceName, SERVICE_TAG, FALSE)
              ELSE StartDiscover(rejected, t, serviceName, SERVICE_TAG, FALSE)
       ELSE StartDiscover([w2 EXCEPT !.tasks[t].pre = "closed"],
                          t, serviceName, SERVICE_TAG, FALSE)

\* the breaker pre-check of createDynamicProxy's middleware
PreCheck(w, t, serviceName) ==
  LET w1 == GetCircuitState(w, serviceName)
      circuit == w1.cs[serviceName]
      w2 == [w1 EXCEPT !.tasks[t] =
                         [IdleTask EXCEPT !.svc = serviceName, !.at = now,
                                          !.req = w.tasks[t].req]]
  IN IF circuit.circuitOpen
       THEN IF now - circuit.lastFailureTs > CIRCUIT_RESET_MS
              THEN StartDiscover([ObserveReset(w2, serviceName) EXCEPT
                                            !.cs[serviceName].circuitOpen = FALSE,
                                            !.cs[serviceName].failures = 0,
                                            !.tasks[t].pre = "reset"],
                                 t, serviceName, SERVICE_TAG, FALSE)
              ELSE Respond([w2 EXCEPT !.tasks[t].pre = "rejected"], t,
                           503, "circuit-open", NoErr)
       ELSE StartDiscover([w2 EXCEPT !.tasks[t].pre = "closed"],
                          t, serviceName, SERVICE_TAG, FALSE)

\* a request for serviceName reaches the proxy middleware
Arrive(t, serviceName) ==
  /\ tasks[t].pc = "idle"
  /\ Apply(PreCheck(World, t, serviceName))

\* the routes mounted after app.use(verifyToken)
Guarded == {"search-service"}

\* a request for serviceName arrives with an Authorization token ("none"
\* without one) and the x-user-* headers its sender put on it; verifyToken
\* runs before the proxy middleware on the routes mounted after it
ArriveWith(t, serviceName, token, xuser) ==
  /\ tasks[t].pc = "idle"
  /\ LET req == [token |-> token, xuser |-> xuser, user |-> NoUser]
         seen == IF serviceName \in Guarded THEN VerifyToken(req) ELSE req
     IN Apply(PreCheck([World EXCEPT !.tasks[t].req = seen], t, serviceName))

\* the leader probe of initConsul completes
ProbeDone(t, ok) ==
  /\ tasks[t].pc = "init"
  /\ IF ok
       THEN Apply(AfterInit([World EXCEPT !.cc = "verified"], t))
       ELSE Apply(InitFailed([World EXCEPT !.cc = "null"], t, "transport"))

\* the timer of withRetry fires: the next attempt
Wake(t) ==
  /\ tasks[t].pc \in {"initSleep", "querySleep"}
  /\ LET w == [World EXCEPT !.tasks[t].attempt = @ + 1,
                            !.tasks[t].delay = NextDelay(@)]
     IN IF tasks[t].pc = "initSleep"
          THEN Apply(InitConsul(w, t))
          ELSE Apply([w EXCEPT !.tasks[t].pc = "query"])

\* consul.catalog.service.nodes completes: an error, an empty list, or a list
\* of which Math.random picks one
QueryDone(t, outcome) ==
  /\ tasks[t].pc = "query"
  /\ tasks[t].op = "discover"
  /\ ~tasks[t].health
  /\ IF outcome \in InstanceIds
       THEN LET selectedService == [name |-> tasks[t].svc, id |-> outcome]
                key == CacheKey(tasks[t].svc, tasks[t].tag)
            IN Apply(Return(CacheSet(World, key, selectedService), t,
                            selectedService, "live"))
       ELSE Apply(RetryFailed(World, t, outcome))

\* troubleshootService: consul.catalog.service.list completes
TsListDone(t, outcome) ==
  /\ tasks[t].pc = "tsList"
  /\ IF outcome = "present"
       THEN Apply([World EXCEPT !.tasks[t].pc = "tsNodes"])
       ELSE Apply(TroubleshootDone(World, t))

\* troubleshootService: consul.catalog.service.nodes completes
TsNodesDone(t) ==
  /\ tasks[t].pc = "tsNodes"
  /\ Apply(TroubleshootDone(World, t))

\* ProxyRes taking a 5xx status of the upstream for a failure
ProxyResCountsErrors(t, statusCode) ==
  /\ tasks[t].pc = "fwd"
  /\ IF statusCode >= 500
       THEN Apply(Respond(FailureSignal(ObserveFailure(World, t, "status"), t), t,
                          statusCode, "relayed", NoErr))
       ELSE Apply(Respond(ObserveResponse(World, t), t, statusCode, "relayed", NoErr))

\* onProxyRes: the upstream answered; its response is relayed
ProxyRes(t, statusCode) ==
  /\ tasks[t].pc = "fwd"
  /\ Apply(Respond(ObserveResponse(World, t), t, statusCode, "relayed", NoErr))

\* onError: the forward failed
ProxyError(t, code) ==
  /\ tasks[t].pc = "fwd"
  /\ Apply(Respond(FailureSignal(ObserveFailure(World, t, code), t), t,
                   ErrorStatus(code), "proxy-error", NoErr))

\* listServiceInstances: consul.catalog.service.nodes completes; an empty list
\* is a result, an error goes to withRetry
ListQueryDone(t, outcome) ==
  /\ tasks[t].pc = "query"
  /\ tasks[t].op = "list"
  /\ IF outcome = "transport"
       THEN Apply(RetryFailed(World, t, outcome))
       ELSE Apply(ListDone(World, t))

\* isServiceDiscoveryAvailable: consul.status.leader completes
LeaderDone(t, ok) ==
  /\ tasks[t].pc = "leader"
  /\ Apply(AvailableDone(World, t, ok))

\* the port is bound and the callback of app.listen runs: the gateway and the
\* authentication service register there; the callback of the resource
\* service only logs
Listening(t) ==
  /\ proc.exit = "none"
  /\ proc.state = "starting"
  /\ IF proc.kind = "resource"
       THEN /\ tasks[t].pc # "db"
            /\ Apply([World EXCEPT !.proc.state = "listening"])
       ELSE /\ tasks[t].pc = "listen"
            /\ Apply(RegisterService([World EXCEPT !.proc.state = "listening"], t))

\* consul.agent.service.register completes
RegisterDone(t, ok) ==
  /\ tasks[t].pc = "register"
  /\ IF ok
       THEN Apply(RegisterReturn(World, t))
       ELSE Apply(RegisterCatch(World, t, "transport"))

\* a direct call of listServiceInstances
ClientList(t, serviceName) ==
  /\ tasks[t].pc = "idle"
  /\ Apply(BeginInit([World EXCEPT !.tasks[t] =
                        [IdleTask EXCEPT !.op = "list", !.svc = serviceName,
                                         !.at = now]], t))

\* a direct call of troubleshootService
ClientTroubleshoot(t, serviceName) ==
  /\ tasks[t].pc = "idle"
  /\ Apply(BeginInit([World EXCEPT !.tasks[t] =
                        [IdleTask EXCEPT !.op = "troubleshoot", !.svc = serviceName,
                                         !.at = now]], t))

\* a direct call of isServiceDiscoveryAvailable: initConsul without withRetry
ClientAvailable(t) ==
  /\ tasks[t].pc = "idle"
  /\ Apply(InitConsul([World EXCEPT !.tasks[t] =
                         [IdleTask EXCEPT !.op = "available", !.at = now]], t))

\* a direct call of discoverService
ClientResolve(t, serviceName, tag, bypassCache) ==
  /\ tasks[t].pc = "idle"
  /\ Apply(StartDiscover([World EXCEPT !.tasks[t] = [IdleTask EXCEPT !.at = now]],
                         t, serviceName, tag, bypassCache))

\* a direct call of discoverService whose withRetry calls are given the
\* attempt budget `retries` in place of the default MAX_RETRIES
ResolveWithBudget(t, serviceName, tag, bypassCache, retries) ==
  /\ tasks[t].pc = "idle"
  /\ Apply(StartDiscover([World EXCEPT !.tasks[t] =
                            [IdleTask EXCEPT !.at = now, !.retries = retries]],
                         t, serviceName, tag, bypassCache))

\* ---- the Registry Client that verifies health (the second
\* service-discovery.js of the repository) ---------------------------------

\* a direct call of the discoverService that checks the /health endpoint of
\* the instances the registry reports
ResolveVerifying(t, serviceName, tag, bypassCache) ==
  /\ tasks[t].pc = "idle"
  /\ Apply(StartDiscover([World EXCEPT !.tasks[t] =
                            [IdleTask EXCEPT !.at = now, !.health = TRUE]],
                         t, serviceName, tag, bypassCache))

\* consul.health.service completes with an error (ok false) or with a result:
\* an error or an empty list goes to withRetry; otherwise the instances are
\* checked one after the other
HealthQueryDone(t, ok, result) ==
  /\ tasks[t].pc = "query"
  /\ tasks[t].op = "discover"
  /\ tasks[t].health
  /\ ~ok => result = <<>>
  /\ IF ~ok \/ Len(result) = 0
       THEN Apply(RetryFailed(World, t, IF ok THEN "zero" ELSE "transport"))
       ELSE Apply([World EXCEPT !.tasks[t].pc = "verify",
                                !.tasks[t].cands = result,
                                !.tasks[t].nChecked = 0,
                                !.tasks[t].verified = <<>>])

\* VerifyFinished writing the first candidate to the cache when no instance
\* passed the check
VerifyFinishedCachesAny(w, t, pick) ==
  LET key == CacheKey(w.tasks[t].svc, w.tasks[t].tag)
      selectedService == [name |-> w.tasks[t].svc,
                          id |-> IF w.tasks[t].verified = <<>>
                                   THEN w.tasks[t].cands[1] ELSE pick]
  IN Return(CacheSet(w, key, selectedService), t, selectedService, "live")

\* every instance has been checked: with none verified discoverService throws
\* into its own catch block; otherwise one verified instance is picked, cached
\* and returned
VerifyFinished(w, t, pick) ==
  IF w.tasks[t].verified = <<>>
    THEN DiscoverCatch(w, t, "unverified")
    ELSE LET key == CacheKey(w.tasks[t].svc, w.tasks[t].tag)
             selectedService == [name |-> w.tasks[t].svc, id |-> pick]
         IN Return(CacheSet(w, key, selectedService), t, selectedService, "live")

\* verifyServiceHealth of the next instance completes: response.ok, or false
\* (a status that is not ok, an error, the timeout); pick is the choice of
\* Math.random among the verified
VerifyDone(t, ok, pick) ==
  /\ tasks[t].pc = "verify"
  /\ LET svc == tasks[t].cands[tasks[t].nChecked + 1]
         w == [World EXCEPT !.tasks[t].nChecked = @ + 1,
                            !.tasks[t].verified = IF ok THEN Append(@, svc) ELSE @]
     IN IF w.tasks[t].nChecked < Len(tasks[t].cands)
          THEN /\ pick = svc
               /\ Apply(w)
          ELSE /\ IF w.tasks[t].verified = <<>>
                    THEN pick = svc
                    ELSE \E i \in DOMAIN w.tasks[t].verified : w.tasks[t].verified[i] = pick
               /\ Apply(VerifyFinished(w, t, pick))

\* invalidateServiceCache
ClientInvalidate(serviceName, tag) ==
  /\ serviceCache' = CacheDelete(serviceCache, CacheKey(serviceName, tag))
  /\ UNCHANGED <<now, ticks, consulClient, circuitStates, tasks, signals, proc>>

\* the instants at which a comparison of the code changes its answer
Instants ==
  {circuitStates[s].lastFailureTs + CIRCUIT_RESET_MS + d :
          s \in DOMAIN circuitStates, d \in {0, 1}}
  \cup {serviceCache[k].timestamp + CACHE_TTL_MS - d :
          k \in DOMAIN serviceCache, d \in {0, 1}}

\* time passes
Tick(n) ==
  /\ ticks < MaxTicks
  /\ n > now
  /\ now' = n
  /\ ticks' = ticks + 1
  /\ UNCHANGED <<consulClient, serviceCache, circuitStates, tasks, signals, proc>>

\* no client yet, nothing cached, no breaker state, no handler running; the
\* gateway is listening and not registered
Start ==
  /\ now = 0
  /\ ticks = 0
  /\ consulClient = "null"
  /\ serviceCache = <<>>
  /\ circuitStates = <<>>
  /\ tasks = [t \in TaskIds |-> IdleTask]
  /\ proc = [Loaded("api-gateway") EXCEPT !.state = "listening"]

Init == Start /\ signals = <<>>

\* the same, with the failure signals observed
InitSignals == Start /\ signals = [s \in Services |-> NoSignals]

\* the gateway process
Next ==
  \/ \E t \in ReqIds, s \in Routed : Arrive(t, s)
  \/ \E t \in ReqIds, ok \in BOOLEAN : ProbeDone(t, ok)
  \/ \E t \in ReqIds : Wake(t)
  \/ \E t \in ReqIds, o \in GatewayOutcomes : QueryDone(t, o)
  \/ \E t \in ReqIds, o \in {"transport", "absent", "present"} : TsListDone(t, o)
  \/ \E t \in ReqIds : TsNodesDone(t)
  \/ \E t \in ReqIds, c \in UpstreamCodes : ProxyRes(t, c)
  \/ \E t \in ReqIds, c \in ErrCodes : ProxyError(t, c)
  \/ \E n \in Instants : Tick(n)

Spec == Init /\ [][Next]_vars

\* the gateway process, its failure signals observed
SpecSignals == InitSignals /\ [][Next]_vars

\* the pending registry call, timer or upstream call of request t completes
Completes(t) ==
  \/ \E ok \in BOOLEAN : ProbeDone(t, ok)
  \/ Wake(t)
  \/ \E o \in GatewayOutcomes : QueryDone(t, o)
  \/ \E o \in {"transport", "absent", "present"} : TsListDone(t, o)
  \/ TsNodesDone(t)
  \/ \E c \in UpstreamCodes : ProxyRes(t, c)
  \/ \E c \in ErrCodes : ProxyError(t, c)

\* the reset timeout of the OPEN breaker of s passes while no request is
\* being handled
ResetTimeout(s) ==
  /\ \A u \in ReqIds : tasks[u].pc = "idle"
  /\ circuitStates[s].circuitOpen
  /\ Tick(circuitStates[s].lastFailureTs + CIRCUIT_RESET_MS + 1)

NextLive ==
  \/ \E t \in ReqIds, s \in Routed : Arrive(t, s)
  \/ \E t \in ReqIds : Completes(t)
  \/ \E s \in DOMAIN circuitStates : ResetTimeout(s)

\* the gateway process when every registry call and every upstream call
\* completes or times out, and every timer fires
SpecLive ==
  Init /\ [][NextLive]_vars /\ \A t \in ReqIds : WF_vars(Completes(t))

\* the Registry Client under direct callers
NextClient ==
  \/ \E t \in ClientIds, k \in ClientKeys, b \in BOOLEAN :
       ClientResolve(t, k[1], k[2], b)
  \/ \E k \in ClientKeys : ClientInvalidate(k[1], k[2])
  \/ \E t \in ClientIds, ok \in BOOLEAN : ProbeDone(t, ok)
  \/ \E t \in ClientIds : Wake(t)
  \/ \E t \in ClientIds, o \in QueryOutcomes : QueryDone(t, o)
  \/ \E n \in Instants : Tick(n)

SpecClient == Init /\ [][NextClient]_vars

\* ---- properties ----------------------------------------------------------

Circuit(s) == circuitStates[s]

\* the time since the last failure signal of s, as the pre-check computes it
Waited(s) == now - Circuit(s).lastFailureTs

CircuitOpenResp == [code |-> 503, status |-> "circuit-open", details |-> NoErr]

\* C1: a request that arrives while the breaker of its service is OPEN and no
\* more than CIRCUIT_RESET_MS has passed since lastFailureTs is answered 503
\* "circuit-open" in that very step: no discoverService call and no forward is
\* started for it, and the client, the cache and the breaker are untouched.
C1_OpenRejects ==
  [][\A t \in ReqIds, s \in Routed :
       (/\ s \in DOMAIN circuitStates
        /\ Circuit(s).circuitOpen
        /\ Waited(s) <= CIRCUIT_RESET_MS
        /\ Arrive(t, s))
       => (/\ tasks'[t].pc = "idle"
           /\ tasks'[t].resp = CircuitOpenResp
           /\ tasks'[t].nDisc = 0
           /\ tasks'[t].nLive = 0
           /\ tasks'[t].nFwd = 0
           /\ UNCHANGED <<consulClient, serviceCache, circuitStates>>)]_vars

\* a request was rejected just now, the breaker OPEN and inside its window
C1_Witness ==
  \E t \in ReqIds :
    /\ tasks[t].pre = "rejected"
    /\ tasks[t].resp = CircuitOpenResp
    /\ tasks[t].at = now
    /\ Circuit(tasks[t].svc).circuitOpen
    /\ Waited(tasks[t].svc) <= CIRCUIT_RESET_MS

\* C2: once THRESHOLD or more failure signals of a service have followed one
\* another (discovery failures or forwarding errors, no upstream response and
\* no reset in between), the breaker of the service is OPEN.
C2_ThresholdOpens ==
  \A s \in DOMAIN circuitStates :
    (s \in DOMAIN signals /\ signals[s].n >= THRESHOLD) => Circuit(s).circuitOpen

\* C3: Scenario B.  After THRESHOLD refused forwards in a row (each after a
\* successful resolution), a request arriving within the reset window is
\* rejected with "circuit-open" and nothing is forwarded for it.
C3_SixthRejected ==
  [][\A t \in ReqIds, s \in Routed :
       (/\ s \in DOMAIN circuitStates
        /\ s \in DOMAIN signals
        /\ signals[s].n >= THRESHOLD
        /\ signals[s].refused
        /\ Waited(s) <= CIRCUIT_RESET_MS
        /\ Arrive(t, s))
       => (tasks'[t].resp = CircuitOpenResp /\ tasks'[t].nFwd = 0)]_vars

\* the step in which the resolution of a request let through by a reset of the
\* breaker succeeds (the forward is started in the same step)
ResetResolved(t) ==
  /\ tasks[t].pc # "fwd"
  /\ tasks'[t].pc = "fwd"
  /\ tasks'[t].pre = "reset"

\* the pre-check of a request arriving at an OPEN breaker later than
\* CIRCUIT_RESET_MS after lastFailureTs: failures 0, circuitOpen false, and
\* the request goes on to resolution
ResetLetsThrough(t, s) ==
  (/\ s \in DOMAIN circuitStates
   /\ Circuit(s).circuitOpen
   /\ Waited(s) > CIRCUIT_RESET_MS
   /\ Arrive(t, s))
  => (/\ tasks'[t].pre = "reset"
      /\ tasks'[t].nDisc = 1
      /\ tasks'[t].resp = NoResp
      /\ circuitStates'[s].failures = 0
      /\ ~circuitStates'[s].circuitOpen)

\* C4 as stated: the pre-check of such a request resets the breaker and lets
\* the request through, and when its resolution succeeds the breaker is
\* CLOSED, the counter 0 and the request forwarded.
C4_ResetThenClosed ==
  [][\A t \in ReqIds :
       /\ \A s \in Routed : ResetLetsThrough(t, s)
       /\ ResetResolved(t)
            => (/\ ~circuitStates'[tasks'[t].svc].circuitOpen
                /\ circuitStates'[tasks'[t].svc].failures = 0
                /\ tasks'[t].nFwd = 1)]_vars

\* C4, amended: the pre-check resets the breaker and lets the request
\* through; when its resolution succeeds the counter is 0 and the request is
\* forwarded, and the breaker is CLOSED unless it was re-opened while the
\* resolution was pending: the step of the success neither opens nor closes it.
C4_ResetThenCounterZero ==
  [][\A t \in ReqIds :
       /\ \A s \in Routed : ResetLetsThrough(t, s)
       /\ ResetResolved(t)
            => (/\ circuitStates'[tasks'[t].svc].failures = 0
                /\ tasks'[t].nFwd = 1
                /\ circuitStates'[tasks'[t].svc].circuitOpen
                     => (/\ tasks[t].pc # "idle"
                         /\ Circuit(tasks[t].svc).circuitOpen))]_vars

\* Scenario D: a request that arrived CIRCUIT_RESET_MS + 1 after the last
\* failure was resolved by a live query and is being forwarded, the breaker
\* CLOSED and the counter 0
C4_Witness ==
  \E t \in ReqIds :
    /\ tasks[t].pre = "reset"
    /\ tasks[t].pc = "fwd"
    /\ tasks[t].via = "live"
    /\ tasks[t].at = Circuit(tasks[t].svc).lastFailureTs + CIRCUIT_RESET_MS + 1
    /\ ~Circuit(tasks[t].svc).circuitOpen
    /\ Circuit(tasks[t].svc).failures = 0

\* C5 as stated: a request arriving at an OPEN breaker is answered
\* "circuit-open" when less than CIRCUIT_RESET_MS has passed since
\* lastFailureTs, and is let through to resolution when CIRCUIT_RESET_MS or
\* more has passed.
C5_ReattemptAtBound ==
  [][\A t \in ReqIds, s \in Routed :
       (/\ s \in DOMAIN circuitStates
        /\ Circuit(s).circuitOpen
        /\ Arrive(t, s))
       => (/\ Waited(s) < CIRCUIT_RESET_MS => tasks'[t].resp = CircuitOpenResp
           /\ Waited(s) >= CIRCUIT_RESET_MS
                => (tasks'[t].nDisc = 1 /\ tasks'[t].resp # CircuitOpenResp))]_vars

\* C5, amended: such a request is answered "circuit-open" when CIRCUIT_RESET_MS
\* or less has passed since lastFailureTs (the bound included), and is let
\* through to resolution only when more than CIRCUIT_RESET_MS has passed.
C5_ReattemptAfterBound ==
  [][\A t \in ReqIds, s \in Routed :
       (/\ s \in DOMAIN circuitStates
        /\ Circuit(s).circuitOpen
        /\ Arrive(t, s))
       => (/\ Waited(s) <= CIRCUIT_RESET_MS
                => (tasks'[t].resp = CircuitOpenResp /\ tasks'[t].nDisc = 0)
           /\ Waited(s) > CIRCUIT_RESET_MS
                => (tasks'[t].nDisc = 1 /\ tasks'[t].resp # CircuitOpenResp))]_vars

\* a request was rejected exactly CIRCUIT_RESET_MS after the last failure
C5_Witness ==
  \E t \in ReqIds :
    /\ tasks[t].pre = "rejected"
    /\ tasks[t].at = now
    /\ Circuit(tasks[t].svc).circuitOpen
    /\ Waited(tasks[t].svc) = CIRCUIT_RESET_MS

\* the step in which t calls discoverService(serviceName, tag, bypassCache)
Resolves(t, serviceName, tag, bypassCache) ==
  /\ tasks[t].pc = "idle"
  /\ tasks'[t] # tasks[t]
  /\ ClientResolve(t, serviceName, tag, bypassCache)

\* the cache key of the lookup t is in
KeyOf(t) == CacheKey(tasks[t].svc, tasks[t].tag)

\* the step in which the live lookup of t fails for good: the last attempt of
\* withRetry fails, at the leader probe or at the query (an error, or no
\* instance)
LiveFailed(t) ==
  /\ tasks[t].op = "discover"
  /\ tasks[t].attempt = MAX_RETRIES
  /\ tasks'[t] # tasks[t]
  /\ \/ ProbeDone(t, FALSE)
     \/ QueryDone(t, "transport")
     \/ QueryDone(t, "zero")

\* C6: a resolve with bypassCache = false made while the entry of its key is
\* younger than CACHE_TTL_MS returns the entry's instance in the same step
\* with no live lookup and no registry call (client and cache untouched); one
\* made when there is no entry, or when the entry is CACHE_TTL_MS old or
\* older, starts a live lookup; and a successful live lookup stores the
\* instance it returns with the time of its resolution.
C6_CacheRoundTrip ==
  [][\A t \in ClientIds, k \in ClientKeys :
       LET key == CacheKey(k[1], k[2])
       IN /\ (/\ key \in DOMAIN serviceCache
              /\ now - serviceCache[key].timestamp < CACHE_TTL_MS
              /\ Resolves(t, k[1], k[2], FALSE))
             => (/\ tasks'[t].pc = "idle"
                 /\ tasks'[t].via = "hit"
                 /\ tasks'[t].inst = serviceCache[key].service
                 /\ tasks'[t].nLive = 0
                 /\ UNCHANGED <<consulClient, serviceCache>>)
          /\ (/\ \/ key \notin DOMAIN serviceCache
                 \/ now - serviceCache[key].timestamp >= CACHE_TTL_MS
              /\ Resolves(t, k[1], k[2], FALSE))
             => (/\ tasks'[t].pc \in {"init", "query"}
                 /\ tasks'[t].via = "none"
                 /\ tasks'[t].nLive = 1)
          /\ (/\ tasks[t].pc = "query"
              /\ tasks'[t].pc = "idle"
              /\ KeyOf(t) = key
              /\ \E i \in InstanceIds : QueryDone(t, i))
             => (/\ tasks'[t].via = "live"
                 /\ key \in DOMAIN serviceCache'
                 /\ serviceCache'[key] =
                      [service |-> tasks'[t].inst, timestamp |-> now])]_vars

\* Scenario A: one caller resolved the key by a live lookup, and a second
\* resolve of the same key, made later and before the entry is CACHE_TTL_MS
\* old, got the same instance from the cache
C6_Witness ==
  \E t1, t2 \in ClientIds :
    /\ t1 # t2
    /\ tasks[t1].pc = "idle" /\ tasks[t1].via = "live"
    /\ tasks[t2].pc = "idle" /\ tasks[t2].via = "hit"
    /\ KeyOf(t1) = KeyOf(t2)
    /\ tasks[t2].nLive = 0
    /\ tasks[t2].inst = tasks[t1].inst
    /\ KeyOf(t1) \in DOMAIN serviceCache
    /\ tasks[t2].at > serviceCache[KeyOf(t1)].timestamp
    /\ tasks[t2].at - serviceCache[KeyOf(t1)].timestamp < CACHE_TTL_MS

\* C7: when the live lookup of a resolve fails for good and the cache holds an
\* entry for its key, fresh or expired, the resolve returns the instance of
\* that entry and the cache is left as it was.
C7_FallbackToEntry ==
  [][\A t \in ClientIds :
       (/\ KeyOf(t) \in DOMAIN serviceCache
        /\ LiveFailed(t))
       => (/\ tasks'[t].pc = "idle"
           /\ tasks'[t].via = "fallback"
           /\ tasks'[t].inst = serviceCache[KeyOf(t)].service
           /\ tasks'[t].err = NoErr
           /\ serviceCache' = serviceCache)]_vars

\* a resolve made when the entry of its key had expired went live, failed and
\* returned the instance of the expired entry
C7_Witness ==
  \E t \in ClientIds :
    /\ tasks[t].pc = "idle" /\ tasks[t].via = "fallback"
    /\ ~tasks[t].bypass
    /\ tasks[t].nLive = 1
    /\ KeyOf(t) \in DOMAIN serviceCache
    /\ tasks[t].at - serviceCache[KeyOf(t)].timestamp >= CACHE_TTL_MS
    /\ tasks[t].inst = serviceCache[KeyOf(t)].service

\* C8: a resolve with bypassCache = true starts a live lookup whatever the
\* cache holds and leaves the cache as it is at that point; when its live
\* lookup fails for good and the cache holds an entry for its key, it returns
\* the instance of that entry.
C8_BypassGoesLive ==
  [][\A t \in ClientIds :
       /\ \A k \in ClientKeys :
            Resolves(t, k[1], k[2], TRUE)
            => (/\ tasks'[t].pc \in {"init", "query"}
                /\ tasks'[t].via = "none"
                /\ tasks'[t].nLive = 1
                /\ serviceCache' = serviceCache)
       /\ (/\ tasks[t].bypass
           /\ KeyOf(t) \in DOMAIN serviceCache
           /\ LiveFailed(t))
          => (/\ tasks'[t].via = "fallback"
              /\ tasks'[t].inst = serviceCache[KeyOf(t)].service)]_vars

\* a resolve with bypassCache = true, made while the entry of its key was
\* fresh, went live, failed and returned the instance of the entry
C8_Witness ==
  \E t \in ClientIds :
    /\ tasks[t].pc = "idle" /\ tasks[t].via = "fallback"
    /\ tasks[t].bypass
    /\ tasks[t].nLive = 1
    /\ KeyOf(t) \in DOMAIN serviceCache
    /\ tasks[t].at > serviceCache[KeyOf(t)].timestamp
    /\ now - serviceCache[KeyOf(t)].timestamp < CACHE_TTL_MS
    /\ tasks[t].inst = serviceCache[KeyOf(t)].service

C10_ForwardFailure ==
  [][\A t \in ReqIds :
       /\ \A c \in ErrCodes :
            (tasks[t].pc = "fwd" /\ ProxyError(t, c))
            => (/\ tasks'[t].pc = "idle"
                /\ tasks'[t].resp =
                     [code |-> IF c = "ECONNREFUSED" THEN 503 ELSE 500,
                      status |-> "proxy-error", details |-> NoErr]
                /\ tasks'[t].nSig = 1
                /\ tasks'[t].nFwd = 1
                /\ circuitStates'[tasks[t].svc].failures =
                     Circuit(tasks[t].svc).failures + 1
                /\ circuitStates'[tasks[t].svc].lastFailureTs = now)
       /\ tasks'[t].nFwd <= 1
       /\ tasks'[t].nSig <= 1]_vars

\* one request answered 503 and one answered 500, both "proxy-error", each
\* forwarded once with one failure signal
C10_Witness ==
  \E t1, t2 \in ReqIds :
    /\ tasks[t1].pc = "idle" /\ tasks[t2].pc = "idle"
    /\ tasks[t1].resp = [code |-> 503, status |-> "proxy-error", details |-> NoErr]
    /\ tasks[t2].resp = [code |-> 500, status |-> "proxy-error", details |-> NoErr]
    /\ tasks[t1].nFwd = 1 /\ tasks[t1].nSig = 1
    /\ tasks[t2].nFwd = 1 /\ tasks[t2].nSig = 1

\* the responses of the dynamic proxy
ProxyResponses ==
  {CircuitOpenResp}
  \cup {[code |-> 503, status |-> "unavailable", details |-> [service |-> s, cause |-> c]] :
          s \in Services, c \in {"transport", "zero"}}
  \cup {[code |-> c, status |-> "proxy-error", details |-> NoErr] : c \in {503, 500}}
  \cup {[code |-> c, status |-> "relayed", details |-> NoErr] : c \in UpstreamCodes}

\* C11: when every registry call, timer and upstream call of a request
\* completes, a request that is being handled is eventually answered, and at
\* any time a request has been answered at most once; a request whose handler
\* has ended has been answered exactly once, with a circuit-open 503, a
\* discovery-failure 503, a proxy-error 503 or 500, or the relayed upstream
\* response.
C11_AnsweredOnce ==
  /\ [](\A t \in ReqIds :
          /\ tasks[t].nResp <= 1
          /\ tasks[t].pc # "idle" => tasks[t].nResp = 0
          /\ (tasks[t].pc = "idle" /\ tasks[t].pre # "none")
               => (tasks[t].nResp = 1 /\ tasks[t].resp \in ProxyResponses))
  /\ \A t \in ReqIds : (tasks[t].pc # "idle") ~> (tasks[t].pc = "idle")

\* a request was answered after its two lookups failed and the diagnostics ran
C11_Witness ==
  \E t \in ReqIds :
    /\ tasks[t].pc = "idle"
    /\ tasks[t].nResp = 1
    /\ tasks[t].resp.status = "unavailable"
    /\ tasks[t].nDisc = 2

\* C12: when the upstream answers, its status code is relayed as it is,
\* whatever it is, and the breaker of the service is left as it was: no
\* failure signal is applied.  The failure counter of a service grows only in
\* a step that answers "proxy-error" or "unavailable".
C12_RelayedUnchanged ==
  [][/\ \A t \in ReqIds, c \in UpstreamCodes :
          (tasks[t].pc = "fwd" /\ ProxyRes(t, c))
          => (/\ tasks'[t].pc = "idle"
              /\ tasks'[t].resp = [code |-> c, status |-> "relayed", details |-> NoErr]
              /\ tasks'[t].nSig = 0
              /\ circuitStates' = circuitStates)
     /\ \A s \in DOMAIN circuitStates :
          circuitStates'[s].failures > Circuit(s).failures
          => \E t \in ReqIds :
               /\ tasks[t].pc # "idle"
               /\ tasks'[t].pc = "idle"
               /\ tasks'[t].svc = s
               /\ tasks'[t].resp.status \in {"proxy-error", "unavailable"}]_vars

\* the upstream answered 500 and the answer was relayed, the counter 0
C12_Witness ==
  \E t \in ReqIds :
    /\ tasks[t].pc = "idle"
    /\ tasks[t].resp = [code |-> 500, status |-> "relayed", details |-> NoErr]
    /\ tasks[t].nSig = 0
    /\ Circuit(tasks[t].svc).failures = 0

\* ---------------------------------------------------------------------------
\* Two routed services: app.use("/api/auth", createDynamicProxy("auth-service"))
\* and app.use("/api/search", createDynamicProxy("search-service")).  Request 1
\* goes to the first route and request 2 to the second; the clock moves to the
\* instant just after the reset timeout of an OPEN breaker.
RouteOf == (1 :> "auth-service") @@ (2 :> "search-service")

BreakerTimeout(s) ==
  /\ circuitStates[s].circuitOpen
  /\ Tick(circuitStates[s].lastFailureTs + CIRCUIT_RESET_MS + 1)

NextTwo ==
  \/ \E t \in ReqIds : Arrive(t, RouteOf[t])
  \/ \E t \in ReqIds : Completes(t)
  \/ \E s \in DOMAIN circuitStates : BreakerTimeout(s)

SpecTwo == Init /\ [][NextTwo]_vars

\* C13: the breaker state is kept per service name.  A step of a request for
\* service A (rejection, reset, discovery failure, forward failure or success)
\* leaves the record of every other service B as it was, creating none, and a
\* request is rejected by the pre-check only when the breaker of its own
\* service is OPEN.
C13_PerServiceIsolation ==
  [][\A t \in ReqIds :
       tasks'[t] # tasks[t]
       => /\ \A b \in Services \ {tasks'[t].svc} :
               /\ (b \in DOMAIN circuitStates') = (b \in DOMAIN circuitStates)
               /\ b \in DOMAIN circuitStates => circuitStates'[b] = circuitStates[b]
          /\ (tasks[t].pc = "idle" /\ tasks'[t].pre = "rejected")
               => /\ tasks'[t].svc \in DOMAIN circuitStates
                  /\ circuitStates[tasks'[t].svc].circuitOpen]_vars

\* the breaker of auth-service is OPEN and a later request for search-service
\* passed its pre-check and was relayed
C13_Witness ==
  /\ DOMAIN circuitStates = Services
  /\ Circuit("auth-service").circuitOpen
  /\ tasks[2].svc = "search-service" /\ tasks[2].pc = "idle"
  /\ tasks[2].pre = "closed" /\ tasks[2].resp.status = "relayed"
  /\ tasks[2].at >= Circuit("auth-service").lastFailureTs
  /\ Circuit("search-service").failures = 0

\* C17: while the breaker of a service is OPEN its failure counter is frozen:
\* the counter changes only in the step of an arriving request for the service
\* (the pre-check), never in the resolution or forward outcome of a request in
\* flight, and an OPEN breaker always has a counter of at least THRESHOLD.
C17_OpenFreezesCounter ==
  /\ [](\A s \in DOMAIN circuitStates :
          Circuit(s).circuitOpen => Circuit(s).failures >= THRESHOLD)
  /\ [][\A s \in DOMAIN circuitStates :
          (Circuit(s).circuitOpen /\ circuitStates'[s].failures # Circuit(s).failures)
          => \E t \in ReqIds : /\ tasks[t].pc = "idle"
                               /\ tasks'[t] # tasks[t]
                               /\ tasks'[t].svc = s]_vars

\* the request t is answered in this step with a failure of its discovery or of
\* its forward
FailureAnswered(t) ==
  /\ tasks[t].pc # "idle"
  /\ tasks'[t].pc = "idle"
  /\ tasks'[t].resp.status \in {"unavailable", "proxy-error"}

\* C18: a failure signal (discovery failure or forwarding error) adds exactly
\* one to the counter of the service, stamps lastFailureTs with the current
\* time, leaves the breaker OPEN when the new count is at least THRESHOLD and
\* otherwise leaves circuitOpen as it was; it never closes the breaker.
C18_FailureSignalStep ==
  [][\A t \in ReqIds :
       FailureAnswered(t)
       => LET s == tasks[t].svc
          IN /\ tasks'[t].nSig = tasks[t].nSig + 1
             /\ circuitStates'[s].failures = Circuit(s).failures + 1
             /\ circuitStates'[s].lastFailureTs = now
             /\ circuitStates'[s].failures >= THRESHOLD => circuitStates'[s].circuitOpen
             /\ circuitStates'[s].failures < THRESHOLD
                  => circuitStates'[s].circuitOpen = Circuit(s).circuitOpen
             /\ Circuit(s).circuitOpen => circuitStates'[s].circuitOpen]_vars

\* the THRESHOLD-th failure signal has just opened the breaker, after the clock
\* moved
C18_Witness ==
  \E t \in ReqIds :
    /\ tasks[t].pc = "idle" /\ tasks[t].nSig = 1
    /\ tasks[t].resp.status \in {"unavailable", "proxy-error"}
    /\ Circuit(tasks[t].svc).failures = THRESHOLD
    /\ Circuit(tasks[t].svc).circuitOpen
    /\ now > 0 /\ Circuit(tasks[t].svc).lastFailureTs = now

\* ---------------------------------------------------------------------------
\* The gateway handling one request at a time: a request arrives only when no
\* other request is in flight.
ArriveAlone(t, serviceName) ==
  /\ \A u \in ReqIds : tasks[u].pc = "idle"
  /\ Arrive(t, serviceName)

NextSerial ==
  \/ \E t \in ReqIds, s \in Routed : ArriveAlone(t, s)
  \/ \E t \in ReqIds : Completes(t)
  \/ \E n \in Instants : Tick(n)

SpecSerial == Init /\ [][NextSerial]_vars

\* C19: the step in which the resolution of a request succeeds and its forward
\* starts leaves the failure counter of the service at 0, and when that forward
\* fails, no other request having run in between, the counter is exactly 1.
C19_ResetOnResolution ==
  [][\A t \in ReqIds :
       /\ (tasks[t].pc # "fwd" /\ tasks'[t].pc = "fwd")
            => /\ tasks'[t].inst # NoInst
               /\ circuitStates'[tasks'[t].svc].failures = 0
       /\ (tasks[t].pc = "fwd" /\ tasks'[t].pc = "idle"
             /\ tasks'[t].resp.status = "proxy-error")
            => circuitStates'[tasks[t].svc].failures = 1]_vars

\* a request failed discovery, and the next one was resolved and its forward
\* failed: the counter is 1, not 2
C19_Witness ==
  \E t, u \in ReqIds :
    /\ tasks[u].pc = "idle" /\ tasks[u].resp.status = "unavailable"
    /\ tasks[t].pc = "idle" /\ tasks[t].resp.status = "proxy-error"
    /\ tasks[t].nFwd = 1
    /\ Circuit(tasks[t].svc).failures = 1

\* C20: the breaker of a service goes from OPEN to CLOSED only in the step of
\* an arriving request for that service whose pre-check finds more than
\* CIRCUIT_RESET_MS elapsed since lastFailureTs.  No resolution, forward or
\* upstream response closes it, and while no request step happens (time
\* passing) the breaker state is untouched.
C20_ClosesOnlyInPreCheck ==
  [][/\ \A s \in DOMAIN circuitStates :
          (Circuit(s).circuitOpen /\ ~circuitStates'[s].circuitOpen)
          => /\ Waited(s) > CIRCUIT_RESET_MS
             /\ \E t \in ReqIds : /\ tasks[t].pc = "idle"
                                  /\ tasks'[t].pc # "idle"
                                  /\ tasks'[t].svc = s
                                  /\ tasks'[t].pre = "reset"
                                  /\ tasks'[t].at = now
     /\ tasks' = tasks => circuitStates' = circuitStates]_vars

\* the breaker opened while a request was resolving; that request was resolved
\* and relayed, the reset timeout has passed, and the breaker is still OPEN
C20_Witness ==
  \E t \in ReqIds :
    /\ tasks[t].pc = "idle" /\ tasks[t].resp.status = "relayed"
    /\ Circuit(tasks[t].svc).circuitOpen
    /\ Circuit(tasks[t].svc).failures = 0
    /\ Waited(tasks[t].svc) > CIRCUIT_RESET_MS

\* ---------------------------------------------------------------------------
\* The Registry Client under every call it exports that reads the registry.
\* One caller resolves (discoverService over two keys of one service), the
\* other runs listServiceInstances, troubleshootService and
\* isServiceDiscoveryAvailable; invalidateServiceCache is called at any time.
CacheKeys == {<<"auth-service", NoTag>>, <<"auth-service", SERVICE_TAG>>}
Resolver == 101
Inspector == 102

NextCache ==
  \/ \E k \in CacheKeys, b \in BOOLEAN : ClientResolve(Resolver, k[1], k[2], b)
  \/ ClientList(Inspector, "auth-service")
  \/ ClientTroubleshoot(Inspector, "auth-service")
  \/ ClientAvailable(Inspector)
  \/ \E k \in CacheKeys : ClientInvalidate(k[1], k[2])
  \/ \E t \in ClientIds, ok \in BOOLEAN : ProbeDone(t, ok)
  \/ \E ok \in BOOLEAN : LeaderDone(Inspector, ok)
  \/ \E t \in ClientIds : Wake(t)
  \/ \E o \in QueryOutcomes : QueryDone(Resolver, o)
  \/ \E o \in QueryOutcomes : ListQueryDone(Inspector, o)
  \/ \E o \in {"transport", "absent", "present"} : TsListDone(Inspector, o)
  \/ TsNodesDone(Inspector)
  \/ \E n \in Instants : Tick(n)

SpecCache == Init /\ [][NextCache]_vars

\* C16: a Cache Entry leaves the cache only in invalidateServiceCache called
\* for exactly its key, every other entry staying as it is; an entry is
\* written or changed only by the successful live query of a discoverService
\* call for its key, with the instance that call returns and the current time;
\* and no step of listServiceInstances, troubleshootService or
\* isServiceDiscoveryAvailable touches the cache.
C16_OnlyInvalidateRemoves ==
  [][/\ serviceCache' # serviceCache
        => \/ /\ tasks' = tasks
              /\ \E k \in CacheKeys :
                   /\ ClientInvalidate(k[1], k[2])
                   /\ DOMAIN serviceCache' = DOMAIN serviceCache \ {CacheKey(k[1], k[2])}
              /\ \A j \in DOMAIN serviceCache' : serviceCache'[j] = serviceCache[j]
           \/ \E t \in ClientIds :
                /\ tasks[t].pc = "query" /\ tasks[t].op = "discover"
                /\ tasks'[t].pc = "idle" /\ tasks'[t].via = "live"
                /\ DOMAIN serviceCache' = DOMAIN serviceCache \cup {KeyOf(t)}
                /\ serviceCache'[KeyOf(t)] =
                     [service |-> tasks'[t].inst, timestamp |-> now]
                /\ \A j \in DOMAIN serviceCache \ {KeyOf(t)} :
                     serviceCache'[j] = serviceCache[j]
     /\ \A t \in ClientIds :
          (tasks'[t] # tasks[t]
            /\ {tasks[t].op, tasks'[t].op} \cap {"list", "troubleshoot", "available"} # {})
          => serviceCache' = serviceCache]_vars

\* the entry the resolver wrote last has been invalidated, another entry is
\* still cached, and listServiceInstances has run
C16_Witness ==
  /\ tasks[Resolver].pc = "idle" /\ tasks[Resolver].via = "live"
  /\ KeyOf(Resolver) \notin DOMAIN serviceCache
  /\ DOMAIN serviceCache # {}
  /\ tasks[Inspector].pc = "idle" /\ tasks[Inspector].via = "listed"

\* ---------------------------------------------------------------------------
\* The start of a process.  Loading service-discovery.js calls
\* testServiceDiscovery(), whose discoverService("auth-service", null, true)
\* creates the client and awaits its leader probe.
AtLoad(kind) ==
  StartDiscover([cc |-> "null", cache |-> <<>>, cs |-> <<>>,
                 tasks |-> [t \in TaskIds |-> IdleTask], sig |-> <<>>,
                 proc |-> Loaded(kind)],
                SelfTest, "auth-service", NoTag, TRUE)

Install(w) ==
  /\ now = 0
  /\ ticks = 0
  /\ consulClient = w.cc
  /\ serviceCache = w.cache
  /\ circuitStates = w.cs
  /\ tasks = w.tasks
  /\ signals = w.sig
  /\ proc = w.proc

\* the gateway: startServer() has called isServiceDiscoveryAvailable, whose
\* initConsul found the client of the self-test
InitBoot ==
  Install(InitConsul([AtLoad("api-gateway") EXCEPT
                        !.tasks[Main] = [IdleTask EXCEPT !.op = "available"]], Main))

\* the awaited call or timer of startServer and of its listen callback
\* completes
MainCompletes ==
  \/ \E ok \in BOOLEAN : LeaderDone(Main, ok)
  \/ Listening(Main)
  \/ \E ok \in BOOLEAN : ProbeDone(Main, ok)
  \/ Wake(Main)
  \/ \E ok \in BOOLEAN : RegisterDone(Main, ok)

\* the self-test goes on
SelfTestCompletes ==
  \/ \E ok \in BOOLEAN : ProbeDone(SelfTest, ok)
  \/ Wake(SelfTest)
  \/ \E o \in GatewayOutcomes : QueryDone(SelfTest, o)

\* a request is accepted once the port is bound
Serve(t, serviceName) ==
  /\ proc.state = "listening"
  /\ proc.exit = "none"
  /\ Arrive(t, serviceName)

NextBoot ==
  \/ MainCompletes
  \/ SelfTestCompletes
  \/ \E s \in Routed : Serve(1, s)
  \/ Completes(1)

SpecBoot == InitBoot /\ [][NextBoot]_vars /\ WF_vars(MainCompletes)

\* C14: the gateway process is never brought down by the registry at startup.
\* Whatever isServiceDiscoveryAvailable answers, startServer goes on to
\* app.listen and the gateway comes to listen; a registration that fails is
\* caught, leaving the process running, listening and not registered.
C14_StartupSurvivesRegistry ==
  /\ [](proc.exit = "none")
  /\ <>(proc.state = "listening")
  /\ [][/\ (tasks[Main].pc = "leader" /\ tasks'[Main] # tasks[Main])
            => /\ tasks'[Main].pc = "listen"
               /\ proc'.avail \in {"yes", "no"}
        /\ (tasks[Main].op = "register" /\ tasks'[Main].pc = "idle"
              /\ tasks'[Main].via = "throw")
            => /\ proc'.state = "listening"
               /\ proc'.exit = "none"
               /\ ~proc'.registry
               /\ proc'.handlers = <<>>]_vars

\* the registry was unreachable at startup and the registration failed; the
\* gateway listens and has answered a request
C14_Witness ==
  /\ proc.avail = "no"
  /\ proc.state = "listening" /\ proc.exit = "none"
  /\ tasks[Main].pc = "idle" /\ tasks[Main].via = "throw"
  /\ tasks[1].pc = "idle" /\ tasks[1].nResp = 1

\* ---------------------------------------------------------------------------
\* A service process from its start to its exit on SIGINT or SIGTERM: the
\* authentication service (authentication/index.js) and the resource service.
ServiceKinds == {"authentication", "resource"}

\* What the runtime does with a rejected promise nobody handles: Node 15 and
\* later raise it as an uncaught exception and the process dies, earlier
\* versions warn.  The repository does not fix the version.
RejectionModes == {"throw", "warn"}

\* the modules are loaded; the main flow awaits the database (connectDB, or
\* initializeInfrastructure)
InitShutdown ==
  \E kind \in ServiceKinds :
    Install([AtLoad(kind) EXCEPT !.tasks[Main].pc = "db"])

\* the database is connected.  The authentication service calls app.listen
\* and installs its shutdown listener; the resource service calls app.listen
\* and then registerService.  A failed connection ends in process.exit(1).
Connected(t, ok) ==
  /\ proc.exit = "none"
  /\ tasks[t].pc = "db"
  /\ IF ~ok
       THEN Apply(Finish([World EXCEPT !.proc.exit = "exit1"], t))
       ELSE IF proc.kind = "authentication"
         THEN Apply(StartListen([World EXCEPT !.proc.handlers = Append(@, "shutdown")], t))
         ELSE Apply(RegisterService(World, t))

\* the deregister listener of registerService, up to its await: the call
\* consul.agent.service.deregister is made
DeregisterListener(p) == [p EXCEPT !.dereg = "queued"]

\* the shutdown listener of the service, up to its first await.  In the
\* authentication service the statement producer = getProducer() assigns to
\* a name the module never declares, which throws in an ES module: the
\* listener's promise is rejected.  The resource service awaits
\* producer.disconnect().
ShutdownListener(p) ==
  IF p.kind = "authentication"
    THEN [p EXCEPT !.shut = "rejected"]
    ELSE [p EXCEPT !.shut = "producer"]

RECURSIVE RunListeners(_, _)
\* process.emit: the listeners are called one after the other, in the order
\* in which they were installed
RunListeners(p, hs) ==
  IF hs = <<>> \/ p.exit # "none"
    THEN p
    ELSE RunListeners(IF Head(hs) = "deregister"
                        THEN DeregisterListener(p)
                        ELSE ShutdownListener(p),
                      Tail(hs))

\* SIGINT or SIGTERM is delivered: with no listener the process is killed;
\* otherwise the listeners run, and an unhandled rejection is dealt with
\* before the event loop turns to I/O
Signal(mode) ==
  /\ proc.exit = "none"
  /\ ~proc.signalled
  /\ LET p0 == [proc EXCEPT !.signalled = TRUE]
         p1 == IF proc.handlers = <<>>
                 THEN [p0 EXCEPT !.exit = "signal"]
                 ELSE RunListeners(p0, proc.handlers)
         p2 == IF p1.shut = "rejected" /\ mode = "throw"
                 THEN [p1 EXCEPT !.exit = "crash"]
                 ELSE p1
     IN Apply([World EXCEPT !.proc = p2])

\* the event loop writes the deregister request to the registry
Flush ==
  /\ proc.exit = "none"
  /\ proc.dereg = "queued"
  /\ Apply([World EXCEPT !.proc.dereg = "sent"])

\* the registry removes the instance
RegistryDeregisters ==
  /\ proc.dereg = "sent"
  /\ Apply([World EXCEPT !.proc.dereg = "answered", !.proc.registry = FALSE])

\* the await of the deregister listener completes: process.exit(0), or
\* process.exit(1) from its catch block
DeregisterDone(ok) ==
  /\ proc.exit = "none"
  /\ IF ok
       THEN /\ proc.dereg = "answered"
            /\ Apply([World EXCEPT !.proc.exit = "exit0"])
       ELSE /\ proc.dereg = "sent"
            /\ Apply([World EXCEPT !.proc.dereg = "failed", !.proc.exit = "exit1"])

\* an await of the resource service's shutdown listener completes:
\* producer.disconnect(), disconnectProducer(), mongoose.disconnect(), then
\* process.exit(0).  The event loop has by then written what was queued.
ShutdownStep ==
  /\ proc.exit = "none"
  /\ proc.dereg # "queued"
  /\ proc.shut \in {"producer", "documents", "mongo"}
  /\ Apply([World EXCEPT
              !.proc.shut = IF @ = "producer" THEN "documents"
                            ELSE IF @ = "documents" THEN "mongo" ELSE "done",
              !.proc.exit = IF proc.shut = "mongo" THEN "exit0" ELSE @])

\* a step of the running process
Runs ==
  /\ proc.exit = "none"
  /\ \/ \E ok \in BOOLEAN : Connected(Main, ok)
     \/ Listening(Main)
     \/ \E t \in ClientIds, ok \in BOOLEAN : ProbeDone(t, ok)
     \/ \E t \in ClientIds : Wake(t)
     \/ \E ok \in BOOLEAN : RegisterDone(Main, ok)
     \/ \E o \in GatewayOutcomes : QueryDone(SelfTest, o)

NextShutdown ==
  \/ Runs
  \/ \E mode \in RejectionModes : Signal(mode)
  \/ Flush
  \/ RegistryDeregisters
  \/ \E ok \in BOOLEAN : DeregisterDone(ok)
  \/ ShutdownStep

SpecShutdown == InitShutdown /\ [][NextShutdown]_vars

\* C15: a process that registered itself and received SIGINT or SIGTERM has
\* left the registry by the time it has exited (the deregister call itself
\* not having failed).
C15_DeregisteredBeforeExit ==
  (/\ proc.exit # "none"
   /\ proc.signalled
   /\ \E i \in DOMAIN proc.handlers : proc.handlers[i] = "deregister"
   /\ proc.dereg # "failed")
  => ~proc.registry

\* C21: a request that succeeds leaves a CLOSED breaker with counter 0 as it
\* is.  Every step of a request other than the answer to a failed discovery or
\* forward (the pre-check, the lookups, the start of the forward, the relay of
\* the upstream response) keeps failures = 0, circuitOpen = false and
\* lastFailureTs of such a breaker; a breaker not yet created is created so.
C21_SuccessKeepsClosed ==
  [][\A t \in ReqIds :
       (tasks'[t] # tasks[t] /\ ~FailureAnswered(t))
       => LET s == tasks'[t].svc
          IN IF s \in DOMAIN circuitStates
               THEN (Circuit(s).failures = 0 /\ ~Circuit(s).circuitOpen)
                      => circuitStates'[s] = Circuit(s)
               ELSE circuitStates'[s] = NewCircuit]_vars

\* two requests were relayed after the clock moved, and the breaker is as it
\* was created
C21_Witness ==
  /\ now > 0
  /\ \A t \in ReqIds : /\ tasks[t].pc = "idle" /\ tasks[t].at = now
                       /\ tasks[t].resp.status = "relayed"
                       /\ Circuit(tasks[t].svc) = NewCircuit

\* ---------------------------------------------------------------------------
\* A burst of requests for one service whose registry entry is fine and whose
\* upstream may be down: more requests than THRESHOLD are in flight together,
\* each taking one slot.
\* one more than THRESHOLD
MaxBurst == 6
BurstIds == 1..MaxBurst

InitBurst ==
  Install([cc |-> "null", cache |-> <<>>, cs |-> <<>>,
           tasks |-> [t \in BurstIds |-> IdleTask], sig |-> <<>>,
           proc |-> [Loaded("api-gateway") EXCEPT !.state = "listening"]])

\* the next request arrives and takes the next slot
ArriveOnce(t) ==
  /\ tasks[t].pre = "none"
  /\ t > 1 => tasks[t - 1].pre # "none"
  /\ Arrive(t, "auth-service")

NextBurst ==
  \/ \E t \in BurstIds : ArriveOnce(t)
  \/ \E t \in BurstIds : ProbeDone(t, TRUE)
  \/ \E t \in BurstIds : QueryDone(t, "i1")
  \/ \E t \in BurstIds : ProxyRes(t, 200)
  \/ \E t \in BurstIds : ProxyError(t, "ECONNREFUSED")

SpecBurst == InitBurst /\ [][NextBurst]_vars

\* C22: pre-check, forward and update of the counter are separate steps.  A
\* request that arrives while the breaker is not OPEN is admitted whatever
\* other requests are in flight; a forward that fails adds one to the counter
\* whatever the counter and the breaker are by then; and a step of one request
\* leaves every other request where it was, a forward in flight included.
C22_NotAtomic ==
  [][\A t \in BurstIds :
       /\ (tasks[t].pc = "idle" /\ tasks'[t] # tasks[t]
             /\ (tasks'[t].svc \in DOMAIN circuitStates
                   => ~Circuit(tasks'[t].svc).circuitOpen))
            => /\ tasks'[t].pre = "closed"
               /\ tasks'[t].pc # "idle"
       /\ (tasks[t].pc = "fwd" /\ tasks'[t].resp.status = "proxy-error")
            => circuitStates'[tasks[t].svc].failures = Circuit(tasks[t].svc).failures + 1
       /\ tasks'[t] # tasks[t]
            => \A u \in BurstIds \ {t} : tasks'[u] = tasks[u]]_vars

\* more requests than THRESHOLD passed the pre-check with the breaker CLOSED,
\* each was forwarded once and each forward failed: the counter is above
\* THRESHOLD
C22_Witness ==
  /\ \A t \in BurstIds : /\ tasks[t].pre = "closed" /\ tasks[t].nFwd = 1
                         /\ tasks[t].nSig = 1
                         /\ tasks[t].resp.status = "proxy-error"
  /\ Circuit("auth-service").failures > THRESHOLD
  /\ Circuit("auth-service").circuitOpen

MaxBudget == 4

NextRetry ==
  \/ \E b \in BOOLEAN, n \in 1..MaxBudget :
       ResolveWithBudget(Main, "auth-service", NoTag, b, n)
  \/ \E ok \in BOOLEAN : ProbeDone(Main, ok)
  \/ Wake(Main)
  \/ \E o \in QueryOutcomes : QueryDone(Main, o)
  \/ \E n \in Instants : Tick(n)

SpecRetry == Init /\ [][NextRetry]_vars

\* the request t is inside a withRetry call
InRetry(t) == tasks[t].pc \in {"init", "initSleep", "query", "querySleep"}

\* C24: withRetry with budget n runs its operation at most n times: the
\* attempt in progress is numbered from 1 to n; the wait after failed attempt k
\* is delay * 1.5^(k-1) and happens only when k < n; the first success is
\* returned at once; the n-th failure ends the call with the error of that
\* attempt (or with what the caller's catch block makes of it), with no wait;
\* and a catalog query answering zero instances is handled as one that failed
\* in transport.
C24_WithRetry ==
  /\ [](InRetry(Main)
         => /\ tasks[Main].attempt \in 1..tasks[Main].retries
            /\ tasks[Main].pc \in {"initSleep", "querySleep"}
                 => /\ tasks[Main].attempt < tasks[Main].retries
                    /\ tasks[Main].delay * 2 ^ (tasks[Main].attempt - 1)
                         = RETRY_DELAY_MS * 3 ^ (tasks[Main].attempt - 1))
  /\ [][/\ (tasks[Main].pc \in {"initSleep", "querySleep"} /\ tasks'[Main] # tasks[Main])
            => /\ tasks'[Main].attempt = tasks[Main].attempt + 1
               /\ tasks'[Main].pc \in {"init", "query"}
        /\ \A o \in InstanceIds :
             (tasks[Main].pc = "query" /\ QueryDone(Main, o))
             => /\ tasks'[Main].pc = "idle"
                /\ tasks'[Main].via = "live"
                /\ tasks'[Main].inst.id = o
        /\ \A o \in {"transport", "zero"} :
             (tasks[Main].pc = "query" /\ QueryDone(Main, o))
             => IF tasks[Main].attempt < tasks[Main].retries
                  THEN /\ tasks'[Main].pc = "querySleep"
                       /\ tasks'[Main].attempt = tasks[Main].attempt
                       /\ tasks'[Main].delay = tasks[Main].delay
                  ELSE /\ tasks'[Main].pc = "idle"
                       /\ IF KeyOf(Main) \in DOMAIN serviceCache
                            THEN tasks'[Main].via = "fallback"
                            ELSE /\ tasks'[Main].via = "throw"
                                 /\ tasks'[Main].err.cause = o
        /\ (tasks[Main].pc = "init" /\ ProbeDone(Main, FALSE))
             => IF tasks[Main].attempt < tasks[Main].retries
                  THEN /\ tasks'[Main].pc = "initSleep"
                       /\ tasks'[Main].attempt = tasks[Main].attempt
                       /\ tasks'[Main].delay = tasks[Main].delay
                  ELSE tasks'[Main].pc = "idle"]_vars

\* with a budget of MaxBudget the call waits 2250 ms after its third failed
\* query
C24_Witness ==
  /\ tasks[Main].retries = MaxBudget
  /\ tasks[Main].pc = "querySleep"
  /\ tasks[Main].attempt = 3
  /\ tasks[Main].delay = 2250

\* ---------------------------------------------------------------------------
\* The health-verifying Registry Client under one direct caller.
\* what consul.health.service may list: nothing, one or two passing instances
HealthResults == {<<>>, <<"i1">>, <<"i1", "i2">>}

NextHealth ==
  \/ \E b \in BOOLEAN : ResolveVerifying(Main, "auth-service", NoTag, b)
  \/ \E ok \in BOOLEAN : ProbeDone(Main, ok)
  \/ Wake(Main)
  \/ \E ok \in BOOLEAN, r \in HealthResults : HealthQueryDone(Main, ok, r)
  \/ \E ok \in BOOLEAN, pick \in InstanceIds : VerifyDone(Main, ok, pick)
  \/ ClientInvalidate("auth-service", NoTag)
  \/ \E n \in Instants : Tick(n)

SpecHealth == Init /\ [][NextHealth]_vars

\* the step in which the last candidate instance of t fails its health check
\* and none before it passed
AllUnverified(t) ==
  /\ tasks[t].pc = "verify"
  /\ tasks[t].verified = <<>>
  /\ tasks'[t].pc = "idle"
  /\ tasks'[t].verified = <<>>

\* C25: a failed health check never mutates the cache: a step of the check
\* changes serviceCache only by writing, under the key of the lookup, an
\* instance that passed the check; when every candidate fails, serviceCache
\* is left as it was, an entry under the key is returned as the fallback, and
\* without an entry the lookup throws.
C25_FailedCheckKeepsCache ==
  [][ /\ (/\ tasks[Main].pc = "verify"
          /\ tasks'[Main] # tasks[Main]
          /\ serviceCache' # serviceCache) =>
           /\ tasks'[Main].via = "live"
           /\ \E i \in DOMAIN tasks'[Main].verified :
                 tasks'[Main].verified[i] = tasks'[Main].inst.id
           /\ serviceCache' = (KeyOf(Main) :> [service |-> tasks'[Main].inst,
                                               timestamp |-> now]) @@ serviceCache
      /\ AllUnverified(Main) =>
           /\ serviceCache' = serviceCache
           /\ IF KeyOf(Main) \in DOMAIN serviceCache
                THEN /\ tasks'[Main].via = "fallback"
                     /\ tasks'[Main].inst = serviceCache[KeyOf(Main)].service
                ELSE /\ tasks'[Main].via = "throw"
                     /\ tasks'[Main].err.cause = "unverified" ]_vars

\* both listed instances failed the check and the expired entry was returned
C25_Witness ==
  /\ tasks[Main].health
  /\ tasks[Main].pc = "idle"
  /\ tasks[Main].cands = <<"i1", "i2">>
  /\ tasks[Main].nChecked = 2
  /\ tasks[Main].verified = <<>>
  /\ tasks[Main].via = "fallback"
  /\ KeyOf(Main) \in DOMAIN serviceCache
  /\ tasks[Main].inst = serviceCache[KeyOf(Main)].service
  /\ ~IsFresh(serviceCache[KeyOf(Main)])

\* ---------------------------------------------------------------------------
\* The cache of the Registry Client under resolves for pairs whose key strings
\* coincide. The registry's catalog is fixed: the instances of each service
\* and the tags they were registered with.
Catalog ==
  {[name |-> "auth-service", id |-> "i1", tags |-> {}],
   [name |-> "auth-service", id |-> "i2", tags |-> {"default"}],
   [name |-> "auth", id |-> "i1", tags |-> {"service-default"}]}

\* consul.catalog.service.nodes({service, tag}): the tag filter is applied
\* only when a tag is given
Listed(serviceName, tag) ==
  {c.id : c \in {d \in Catalog : /\ d.name = serviceName
                                 /\ tag = NoTag \/ tag \in d.tags}}

\* the (service, tag) pairs resolved: the three are different pairs
KeyPairs ==
  {<<"auth-service", NoTag>>, <<"auth-service", "default">>,
   <<"auth", "service-default">>}

\* the catalog query of t completes with an error or with a listed instance
CatalogQueryDone(t, outcome) ==
  /\ tasks[t].pc = "query"
  /\ outcome \in Listed(tasks[t].svc, tasks[t].tag) \cup {"transport"}
  /\ QueryDone(t, outcome)

NextKeys ==
  \/ \E k \in KeyPairs, b \in BOOLEAN : ClientResolve(Resolver, k[1], k[2], b)
  \/ \E ok \in BOOLEAN : ProbeDone(Resolver, ok)
  \/ Wake(Resolver)
  \/ \E o \in QueryOutcomes : CatalogQueryDone(Resolver, o)
  \/ \E k \in KeyPairs : ClientInvalidate(k[1], k[2])
  \/ \E n \in Instants : Tick(n)

SpecKeys == Init /\ [][NextKeys]_vars

\* C26: a resolve for a pair (service name, tag) returns an instance of that
\* pair only: whether it comes from the registry, from a fresh entry or from
\* the fallback, the instance returned belongs to the service asked for and is
\* one the registry lists under the tag asked for.
C26_PairKeyed ==
  (/\ tasks[Resolver].pc = "idle"
   /\ tasks[Resolver].via \in {"hit", "fallback", "live"}) =>
     /\ tasks[Resolver].inst.name = tasks[Resolver].svc
     /\ tasks[Resolver].inst.id \in Listed(tasks[Resolver].svc, tasks[Resolver].tag)

\* ---------------------------------------------------------------------------
\* C27: a request rejected by the pre-check leaves the Circuit State of every
\* service as it was: failures, circuitOpen and lastFailureTs are not written
\* in the step that answers circuit-open, so the instant at which the breaker
\* can reset does not move.
C27_RejectKeepsCircuit ==
  [][\A t \in ReqIds :
       (/\ tasks[t].pc = "idle"
        /\ tasks'[t] # tasks[t]
        /\ tasks'[t].pc = "idle"
        /\ tasks'[t].pre = "rejected")
       => /\ circuitStates' = circuitStates
          /\ Circuit(tasks'[t].svc).circuitOpen
          /\ Circuit(tasks'[t].svc).lastFailureTs + CIRCUIT_RESET_MS >= now]_vars

\* a request was rejected at the last instant of the window and the window
\* still ends at that instant
C27_Witness ==
  \E t \in ReqIds :
    /\ tasks[t].pre = "rejected"
    /\ tasks[t].pc = "idle"
    /\ tasks[t].at = now
    /\ Circuit(tasks[t].svc).circuitOpen
    /\ Circuit(tasks[t].svc).failures >= THRESHOLD
    /\ Circuit(tasks[t].svc).lastFailureTs + CIRCUIT_RESET_MS = now

\* ---------------------------------------------------------------------------
\* C28: in the proxy, when the live lookup of a resolve fails for good and the
\* cache holds an entry under the key of that resolve (the tagged key for the
\* first resolve of the request, the untagged key for the second), fresh or
\* expired, the resolve succeeds with the entry's instance: in that step the
\* failure counter of the service is set to 0 and the request is forwarded,
\* with no failure signal.  Without an entry the tagged resolve is followed by
\* the untagged one, and the untagged one by diagnostics; the request is
\* answered "unavailable", its failure signal applied, only after both
\* resolves have thrown.
C28_FallbackIsSuccess ==
  [][\A t \in ReqIds :
       /\ LiveFailed(t) =>
            IF KeyOf(t) \in DOMAIN serviceCache
              THEN /\ tasks'[t].pc = "fwd"
                   /\ tasks'[t].via = "fallback"
                   /\ tasks'[t].inst = serviceCache[KeyOf(t)].service
                   /\ tasks'[t].nFwd = 1
                   /\ tasks'[t].nSig = 0
                   /\ circuitStates'[tasks[t].svc] =
                        [circuitStates[tasks[t].svc] EXCEPT !.failures = 0]
                   /\ serviceCache' = serviceCache
              ELSE /\ tasks'[t].nSig = 0
                   /\ tasks'[t].nFwd = 0
                   /\ tasks'[t].pc # "idle"
                   /\ circuitStates' = circuitStates
                   /\ IF tasks[t].bypass
                        THEN /\ tasks'[t].op = "troubleshoot"
                             /\ tasks'[t].via = "throw"
                        ELSE /\ tasks'[t].op = "discover"
                             /\ tasks'[t].nDisc = 2
                             /\ tasks'[t].tag = NoTag
                             /\ tasks'[t].bypass
       /\ tasks'[t].nSig > tasks[t].nSig /\ tasks'[t].resp.status = "unavailable"
            => /\ tasks[t].nDisc = 2
               /\ tasks[t].via = "throw"
               /\ tasks[t].bypass
               /\ tasks[t].tag = NoTag
               /\ tasks[t].nFwd = 0]_vars

\* the tagged resolve of a request threw, its untagged resolve failed at the
\* registry and returned the entry of the untagged key; the request is being
\* forwarded with the counter at 0
C28_Witness ==
  \E t \in ReqIds :
    /\ tasks[t].pc = "fwd"
    /\ tasks[t].via = "fallback"
    /\ tasks[t].nDisc = 2
    /\ tasks[t].bypass
    /\ tasks[t].nLive = 1
    /\ KeyOf(t) \in DOMAIN serviceCache
    /\ tasks[t].inst = serviceCache[KeyOf(t)].service
    /\ Circuit(tasks[t].svc).failures = 0
    /\ tasks[t].nSig = 0

\* ---------------------------------------------------------------------------
\* where a caller is before initConsul has returned to it, and where it is
\* right after: at its first registry call on the client it was handed
BeforeClient == {"idle", "init", "initSleep"}
WithClient == {"query", "leader", "tsList", "register"}

\* C29: initConsul returns the client to a caller only when a leader probe on
\* that client has succeeded, whatever the other callers are doing, and a
\* failed probe leaves the shared client null.
C29_ProbedBeforeHandedOut ==
  [][\A t \in ClientIds :
       /\ (tasks[t].pc \in BeforeClient /\ tasks'[t].pc \in WithClient)
            => consulClient' = "verified"
       /\ (/\ tasks[t].pc = "init"
           /\ tasks'[t] # tasks[t]
           /\ tasks'[t].pc \notin WithClient)
            => consulClient' = "null"]_vars

\* ---------------------------------------------------------------------------
\* The gateway under requests that carry credentials: one request at a time,
\* for either service, with or without a token, with or without x-user-*
\* headers of the sender's own.
Tokens == {"none", "forged-token", "alice-token"}
ClientHeaders ==
  {NoUser, [id |-> "root", role |-> "admin", email |-> "root@example.org"]}

NextAuth ==
  \/ \E s \in Services, k \in Tokens, h \in ClientHeaders : ArriveWith(1, s, k, h)
  \/ Completes(1)

SpecAuth == Init /\ [][NextAuth]_vars

\* C30: the proxied request carries identity headers only with the values of
\* the payload of a token the gateway verified for that request; a request
\* without a token, with a token jwt.verify rejects, or on a route verifyToken
\* does not run for, is forwarded without identity headers, whatever x-user-*
\* headers its sender put on it; so the search service takes from the headers
\* no identity but that of a verified token.
C30_IdentityFromVerifiedToken ==
  \A t \in ReqIds :
    tasks[t].nFwd > 0 =>
      LET verified == /\ tasks[t].svc \in Guarded
                      /\ tasks[t].req.token \in DOMAIN Signed
          allowed == IF verified THEN {NoUser, Signed[tasks[t].req.token]}
                                 ELSE {NoUser}
      IN /\ tasks[t].sent \in allowed
         /\ Authenticate(tasks[t].sent) \in allowed
====
